---- MODULE Spec2Model ----
(***************************************************************************)
(* Copidock: the comprehensive-snapshot pipeline (repository scanner,      *)
(* template resolver, snapshot synthesizer) and the storage handlers       *)
(* (thread start, snapshot, hydrate, rehydrate), as state machines.        *)
(*                                                                         *)
(* Python strings are TLA+ strings (Len, \o, SubSeq and Tail act on them), *)
(* Python lists are sequences, Python dicts are functions whose DOMAIN is  *)
(* the set of keys that are present.                                       *)
(***************************************************************************)
EXTENDS Integers, Sequences, FiniteSets, TLC

VARIABLES
    \* ---- repository scanner, budget step (cli/gather.py) ----
    file_paths,      \* enforce_budget's candidates: per file, what stat() gives
    max_tokens,      \* the caller's token budget
    filtered_paths,  \* enforce_budget's result: indices into file_paths
    budget_pc,       \* "idle" before the call, "done" after
    \* ---- repository scanner, whole scan (cli/gather.py) ----
    scan,            \* the last gather_comprehensive call: its inputs and outcome
    \* ---- template resolver and synthesizer (templates/loader.py, cli/synthesis/) ----
    persona_cache,   \* TemplateLoader._persona_cache: name -> loaded configuration
    first_loaded,    \* per name, the configuration as it was right after its load
    opened,          \* the names whose template file was opened so far
    call,            \* the last call into the resolver or synthesizer and its outcome
    \* ---- snapshot store (lambdas/) ----
    threads,         \* the threads table: thread_id -> item
    bucket,          \* the object store: key -> object
    reqs,            \* the requests, in order of arrival: where each handler is
    minted           \* how many thread ids and rehydration ids uuid4 has given

vars == <<file_paths, max_tokens, filtered_paths, budget_pc, scan,
          persona_cache, first_loaded, opened, call,
          threads, bucket, reqs, minted>>

(***************************************************************************)
(* Bounds of the model.                                                    *)
(***************************************************************************)
MaxFiles == 3
MaxBytes == 9
MaxBudget == 4
MaxScanTokens == 6
MaxListLen == 2
MaxThreads == 2
MaxRequests == 3

(***************************************************************************)
(* Strings.                                                                *)
(***************************************************************************)
\* Python's `needle in hay` on strings.
Contains(hay, needle) ==
    \E h \in {hay} :
        \E i \in 1..(Len(h) - Len(needle) + 1) : SubSeq(h, i, i + Len(needle) - 1) = needle

\* The printable ASCII characters but the double quote, the backslash and
\* the backquote, in code-point order.
Ascii ==
    " !#$%&'()*+,-./0123456789:;<=>?@ABCDEFGHIJKLMNOPQRSTUVWXYZ[]^_abcdefghijklmnopqrstuvwxyz{|}~"

CharAt(s, i) == SubSeq(s, i, i)

AsciiRank ==
    [c \in {CharAt(Ascii, i) : i \in 1..Len(Ascii)} |->
        CHOOSE i \in 1..Len(Ascii) : CharAt(Ascii, i) = c]

CharRank(c) == AsciiRank[c]

\* Python's `a < b` on strings.
RECURSIVE StrLess(_, _)
StrLess(a, b) ==
    IF b = "" THEN FALSE
    ELSE IF a = "" THEN TRUE
    ELSE IF Head(a) = Head(b) THEN StrLess(Tail(a), Tail(b))
    ELSE CharRank(Head(a)) < CharRank(Head(b))

\* sorted(set(...)) of strings.
RECURSIVE SortedStrings(_)
SortedStrings(S) ==
    IF S = {} THEN <<>>
    ELSE LET m == CHOOSE x \in S : \A y \in S \ {x} : StrLess(x, y)
         IN  <<m>> \o SortedStrings(S \ {m})

StartsWith(s, p) == Len(p) <= Len(s) /\ SubSeq(s, 1, Len(p)) = p
EndsWith(s, p) == Len(p) <= Len(s) /\ SubSeq(s, Len(s) - Len(p) + 1, Len(s)) = p

\* str.rfind(c) for a one-character c, 1-based; 0 when absent.
RFind(s, c) ==
    LET hits == {i \in 1..Len(s) : CharAt(s, i) = c}
    IN  IF hits = {} THEN 0 ELSE CHOOSE i \in hits : \A j \in hits : j <= i

UpperLetters == "ABCDEFGHIJKLMNOPQRSTUVWXYZ"
LowerLetters == "abcdefghijklmnopqrstuvwxyz"

LowerOf ==
    [c \in {CharAt(UpperLetters, i) : i \in 1..Len(UpperLetters)} |->
        CharAt(LowerLetters, CHOOSE i \in 1..Len(UpperLetters) : CharAt(UpperLetters, i) = c)]

\* str.lower().
RECURSIVE LowerRange(_, _, _)
LowerRange(s, a, b) ==
    IF a > b THEN ""
    ELSE IF a = b
    THEN (IF CharAt(s, a) \in DOMAIN LowerOf THEN LowerOf[CharAt(s, a)] ELSE CharAt(s, a))
    ELSE CHOOSE t \in {LowerRange(s, a, mid) \o LowerRange(s, mid + 1, b) :
                          mid \in {(a + b) \div 2}} : TRUE

Lower(s) == CHOOSE t \in {LowerRange(v, 1, Len(v)) : v \in {s}} : TRUE

Range(s) == {s[i] : i \in 1..Len(s)}

\* str.strip() (the only whitespace of the model's strings is the space).
RECURSIVE LStrip(_)
LStrip(text) == IF text # "" /\ Head(text) = " " THEN LStrip(Tail(text)) ELSE text
RECURSIVE RStrip(_)
RStrip(text) ==
    IF text # "" /\ CharAt(text, Len(text)) = " "
    THEN RStrip(SubSeq(text, 1, Len(text) - 1)) ELSE text
Strip(text) == RStrip(LStrip(text))

\* str.replace(old, new).
RECURSIVE Replace(_, _, _)
Replace(text, old, new) ==
    IF Len(text) < Len(old) THEN text
    ELSE IF SubSeq(text, 1, Len(old)) = old
         THEN new \o Replace(SubSeq(text, Len(old) + 1, Len(text)), old, new)
         ELSE Head(text) \o Replace(Tail(text), old, new)

Digits == <<"0", "1", "2", "3", "4", "5", "6", "7", "8", "9">>
RECURSIVE IntStr(_)
IntStr(n) == IF n < 10 THEN Digits[n + 1] ELSE IntStr(n \div 10) \o Digits[(n % 10) + 1]

\* "\n".join(lines).
RECURSIVE JoinLines(_)
JoinLines(lines) ==
    IF lines = <<>> THEN ""
    ELSE Head(lines) \o (IF Len(lines) > 1 THEN "\n" ELSE "") \o JoinLines(Tail(lines))

\* str.find(needle, start), 1-based; 0 when absent.
FindFrom(hay, needle, start) ==
    CHOOSE at \in
      { IF hits = {} THEN 0 ELSE CHOOSE i \in hits : \A j \in hits : i <= j
        : hits \in { {i \in start..(Len(hay) - Len(needle) + 1) :
                         SubSeq(hay, i, i + Len(needle) - 1) = needle} } } : TRUE

\* text[:n].
Prefix(text, n) == SubSeq(text, 1, IF n < Len(text) THEN n ELSE Len(text))

\* str.split("|").
RECURSIVE SplitBar(_, _)
SplitBar(s, cur) ==
    IF s = "" THEN <<cur>>
    ELSE IF Head(s) = "|" THEN <<cur>> \o SplitBar(Tail(s), "")
    ELSE SplitBar(Tail(s), cur \o Head(s))

\* dict.get(key, default).
Get(d, k, default) == IF k \in DOMAIN d THEN d[k] ELSE default

\* any(k in text for k in keywords).
ContainsAny(text, keywords) == \E k \in keywords : Contains(text, k)

\* The orders list(set(...)) can give: every sequence without repetition
\* whose elements are exactly S.
ListsOf(S) == {q \in [1..Cardinality(S) -> S] : Range(q) = S}

(***************************************************************************)
(* Repository scanner: the budget step.                                    *)
(***************************************************************************)
\* What stat() can give for a candidate: a size, or an error.
StatResults ==
    [stat_ok : {TRUE}, st_size : 0..MaxBytes] \cup [stat_ok : {FALSE}, st_size : {0}]

\* get_file_size_estimate: st_size // 4, and 0 when stat raises.
get_file_size_estimate(f) == IF f.stat_ok THEN f.st_size \div 4 ELSE 0

\* paths_with_size: (path, estimate) pairs in input order.
paths_with_size(fp) ==
    [i \in 1..Len(fp) |-> [path |-> i, estimated_tokens |-> get_file_size_estimate(fp[i])]]

\* A plausible slip of the sort: an element goes before the elements of
\* equal key, which reverses the input order among equal costs.
RECURSIVE InsertSorted_before_equal(_, _)
InsertSorted_before_equal(s, e) ==
    IF s = <<>> THEN <<e>>
    ELSE IF Head(s).estimated_tokens < e.estimated_tokens
         THEN <<Head(s)>> \o InsertSorted_before_equal(Tail(s), e)
         ELSE <<e>> \o s

\* A plausible slip of the sort: larger files first.
RECURSIVE InsertSorted_descending(_, _)
InsertSorted_descending(s, e) ==
    IF s = <<>> THEN <<e>>
    ELSE IF Head(s).estimated_tokens >= e.estimated_tokens
         THEN <<Head(s)>> \o InsertSorted_descending(Tail(s), e)
         ELSE <<e>> \o s

\* list.sort(key=size): ascending and stable (insertion from the left, an
\* element goes after every element whose key is not larger).
RECURSIVE InsertSorted(_, _)
InsertSorted(s, e) ==
    IF s = <<>> THEN <<e>>
    ELSE IF Head(s).estimated_tokens <= e.estimated_tokens
         THEN <<Head(s)>> \o InsertSorted(Tail(s), e)
         ELSE <<e>> \o s

RECURSIVE SortBySize(_)
SortBySize(s) ==
    IF s = <<>> THEN <<>>
    ELSE InsertSorted(SortBySize(SubSeq(s, 1, Len(s) - 1)), s[Len(s)])

\* A plausible slip of the loop below: the budget is tested before the file's
\* cost is added.
RECURSIVE budget_loop_test_before_add(_, _, _, _)
budget_loop_test_before_add(sorted, budget, total_tokens, acc) ==
    IF sorted = <<>> THEN acc
    ELSE IF total_tokens <= budget
         THEN budget_loop_test_before_add(Tail(sorted), budget,
                             total_tokens + Head(sorted).estimated_tokens,
                             Append(acc, Head(sorted).path))
         ELSE acc

\* The loop of enforce_budget: accept while the running total stays within
\* the budget, break at the first file that does not fit.
RECURSIVE budget_loop(_, _, _, _)
budget_loop(sorted, budget, total_tokens, acc) ==
    IF sorted = <<>> THEN acc
    ELSE IF total_tokens + Head(sorted).estimated_tokens <= budget
         THEN budget_loop(Tail(sorted), budget,
                          total_tokens + Head(sorted).estimated_tokens,
                          Append(acc, Head(sorted).path))
         ELSE acc

enforce_budget(fp, budget) ==
    budget_loop(SortBySize(paths_with_size(fp)), budget, 0, <<>>)

\* Sequences of length at most n over S.
SeqUpTo(S, n) == UNION {[1..k -> S] : k \in 0..n}

BudgetIdle ==
    /\ file_paths = <<>>
    /\ max_tokens = 0
    /\ filtered_paths = <<>>
    /\ budget_pc = "idle"

BudgetInit ==
    /\ file_paths \in SeqUpTo(StatResults, MaxFiles)
    /\ max_tokens \in 0..MaxBudget
    /\ filtered_paths = <<>>
    /\ budget_pc = "idle"

budget_vars == <<file_paths, max_tokens, filtered_paths, budget_pc>>

EnforceBudget ==
    /\ budget_pc = "idle"
    /\ filtered_paths' = enforce_budget(file_paths, max_tokens)
    /\ budget_pc' = "done"
    /\ UNCHANGED <<file_paths, max_tokens>>


(***************************************************************************)
(* Repository scanner: the whole scan.                                     *)
(***************************************************************************)
SKIP_EXTENSIONS == {".log", ".cache", ".tmp", ".lock", ".pyc", ".pyo", ".pyd", ".so"}
SKIP_DIRECTORIES ==
    {"node_modules", ".git", "__pycache__", ".pytest_cache", "venv", ".venv", "dist", "build"}

\* The working tree the scans run in: what is on disk under repo_root.
\* kind: "text", "binary" (a null byte in the first 1024 bytes), "dir".
RepoDisk ==
    { [path |-> "api/users.py",      kind |-> "text",   st_size |-> 16],
      [path |-> "README.md",         kind |-> "text",   st_size |-> 8],
      [path |-> "infra/main.tf",     kind |-> "text",   st_size |-> 12],
      [path |-> "rebuild.py",        kind |-> "text",   st_size |-> 5],
      [path |-> "app.log",           kind |-> "text",   st_size |-> 4],
      [path |-> "logo.png",          kind |-> "binary", st_size |-> 9],
      [path |-> "node_modules/x.js", kind |-> "text",   st_size |-> 4],
      [path |-> "lambdas/h.py",      kind |-> "text",   st_size |-> 7],
      [path |-> ".github/workflows/ci.yml", kind |-> "text", st_size |-> 6],
      [path |-> "infra",             kind |-> "dir",    st_size |-> 0],
      [path |-> "lambdas",           kind |-> "dir",    st_size |-> 0] }

DiskPaths == {e.path : e \in RepoDisk}
DiskEntry(p) == CHOOSE e \in RepoDisk : e.path = p

\* Path.exists(), Path.is_file().
PathExists(p) == p \in DiskPaths
PathIsFile(p) == PathExists(p) /\ DiskEntry(p).kind # "dir"

\* is_binary_file: a null byte in the first chunk; any failure to open or
\* read (a missing file, a directory) counts as binary.
is_binary_file(p) ==
    IF PathIsFile(p) THEN DiskEntry(p).kind = "binary" ELSE TRUE

\* Path(path).suffix: from the last dot of the last component, unless that
\* dot starts or ends the component.
PathName(p) == SubSeq(p, RFind(p, "/") + 1, Len(p))
PathSuffix(p) ==
    LET name == PathName(p)
        i == RFind(name, ".")
    IN  IF 1 < i /\ i < Len(name) THEN SubSeq(name, i, Len(name)) ELSE ""

\* should_skip_file: a skip-directory name anywhere in the path (a substring
\* test), or a skip extension.
should_skip_file(p) ==
    \/ \E skip_dir \in SKIP_DIRECTORIES : Contains(p, skip_dir)
    \/ Lower(PathSuffix(p)) \in SKIP_EXTENSIONS

\* Every path a scan of this working tree can meet, and should_skip_file of
\* each, computed once.
KnownPaths == DiskPaths \cup {"gone.py"}
SkipTable == [p \in KnownPaths |-> should_skip_file(p)]

\* filter_relevant_files: the list, in order, without the paths that are
\* skipped, missing or binary.
RECURSIVE filter_relevant_files(_)
filter_relevant_files(paths) ==
    IF paths = <<>> THEN <<>>
    ELSE LET p == Head(paths)
             keep == /\ ~SkipTable[p]
                     /\ PathExists(p)
                     /\ ~is_binary_file(p)
         IN  (IF keep THEN <<p>> ELSE <<>>) \o filter_relevant_files(Tail(paths))

\* stat() of each path of a list, as the budget step sees it.
StatOf(p) ==
    IF PathExists(p) THEN [stat_ok |-> TRUE, st_size |-> DiskEntry(p).st_size]
    ELSE [stat_ok |-> FALSE, st_size |-> 0]

\* enforce_budget on a list of paths of the working tree.
enforce_budget_paths(paths, budget) ==
    LET picked == enforce_budget([i \in 1..Len(paths) |-> StatOf(paths[i])], budget)
    IN  [k \in 1..Len(picked) |-> paths[picked[k]]]

\* The state git and the repository can be in when a query runs.
GitEnvs == {"ok", "nonzero", "unavailable", "timeout"}

\* safe_git_command: stdout when git exits 0, "" when it exits non-zero,
\* times out or cannot be started (OSError).
safe_git_command(env, stdout) == IF env = "ok" THEN stdout ELSE <<>>

\* list_changed_files: staged, modified and untracked names, de-duplicated;
\* list(set(...)) gives them in an order the caller does not control.
changed_file_set(env, staged, modified, untracked) ==
    Range(safe_git_command(env, staged))
        \cup Range(safe_git_command(env, modified))
        \cup Range(safe_git_command(env, untracked))

\* build_smart_paths: changed files, filtered, then under the budget.
build_smart_paths(changed_files, budget) ==
    enforce_budget_paths(filter_relevant_files(changed_files), budget)

\* files_changed_in_last_commit: subprocess.run(check=True) with no timeout;
\* only CalledProcessError (a non-zero exit) is caught.  A git that cannot be
\* started raises FileNotFoundError (an OSError) out of the function; a slow
\* git is waited for.
files_changed_in_last_commit(env, head_files) ==
    CASE env = "ok"          -> [raised |-> FALSE, exc |-> "", value |-> head_files]
      [] env = "timeout"     -> [raised |-> FALSE, exc |-> "", value |-> head_files]
      [] env = "nonzero"     -> [raised |-> FALSE, exc |-> "", value |-> <<>>]
      [] env = "unavailable" -> [raised |-> TRUE, exc |-> "FileNotFoundError", value |-> <<>>]

\* str.strip() of a text that holds newlines: spaces and newlines go.
StripWhite(text) ==
    CHOOSE stripped \in
      { IF kept = {} THEN ""
        ELSE SubSeq(t, CHOOSE i \in kept : \A j \in kept : i <= j,
                       CHOOSE i \in kept : \A j \in kept : j <= i)
        : t \in {text}, kept \in { {i \in 1..Len(text) : CharAt(text, i) \notin {" ", "\n"}} } }
      : TRUE

\* str.split(sep) of the text from position start on.
RECURSIVE SplitFrom(_, _, _)
SplitFrom(text, sep, start) ==
    CHOOSE parts \in
      { IF i = 0 THEN <<SubSeq(text, start, Len(text))>>
        ELSE <<SubSeq(text, start, i - 1)>> \o SplitFrom(text, sep, i + Len(sep))
        : i \in {FindFrom(text, sep, start)} } : TRUE

Split(text, sep) == CHOOSE parts \in {SplitFrom(t, sep, 1) : t \in {text}} : TRUE

\* The commit types and the scopes, in the order the code tests them.
commit_types ==
    << [type |-> "fix",      words |-> {"fix", "bug", "error", "issue"}],
       [type |-> "feat",     words |-> {"feat", "feature", "add", "implement"}],
       [type |-> "refactor", words |-> {"refactor", "cleanup", "improve"}],
       [type |-> "test",     words |-> {"test", "spec", "coverage"}],
       [type |-> "docs",     words |-> {"doc", "readme", "comment"}],
       [type |-> "config",   words |-> {"config", "setup", "env", "deploy"}] >>

scope_patterns ==
    << [scope |-> "api",   keywords |-> {"api", "endpoint", "route", "server"}],
       [scope |-> "ui",    keywords |-> {"ui", "frontend", "component", "css", "html"}],
       [scope |-> "db",    keywords |-> {"database", "db", "migration", "schema"}],
       [scope |-> "auth",  keywords |-> {"auth", "login", "security", "token"}],
       [scope |-> "infra", keywords |-> {"infra", "deploy", "terraform", "aws", "docker"}] >>

\* re.search(r"(?:close|closes|fix|fixes|resolve|resolves)\s+#?\d+", text):
\* somewhere a verb, then white space, then an optional "#", then a digit.
closing_verbs == {"close", "closes", "fix", "fixes", "resolve", "resolves"}

\* A plausible slip of the pattern: the white space after the verb left out.
closes_issue_at_no_space(text, i, verb) ==
    /\ i + Len(verb) - 1 <= Len(text)
    /\ SubSeq(text, i, i + Len(verb) - 1) = verb
    /\ \E number \in {SubSeq(text, i + Len(verb), Len(text))} :
         \E digits \in {IF number # "" /\ Head(number) = "#" THEN Tail(number) ELSE number} :
             digits # "" /\ Head(digits) \in Range(Digits)

closes_issue_at(text, i, verb) ==
    /\ i + Len(verb) - 1 <= Len(text)
    /\ SubSeq(text, i, i + Len(verb) - 1) = verb
    /\ \E after \in {SubSeq(text, i + Len(verb), Len(text))} :
         /\ after # "" /\ Head(after) \in {" ", "\n"}
         /\ \E number \in {StripWhite(after)} :
              \E digits \in {IF number # "" /\ Head(number) = "#" THEN Tail(number) ELSE number} :
                  digits # "" /\ Head(digits) \in Range(Digits)

\* A plausible slip of the analysis: the text searched is the body alone.
analyze_single_commit_body_only(commit) ==
    LET analysis(subject, full_text) ==
            LET hits == {k \in 1..Len(commit_types) : ContainsAny(subject, commit_types[k].words)}
            IN  [ type |-> IF hits = {} THEN "other"
                           ELSE commit_types[CHOOSE k \in hits : \A h \in hits : k <= h].type,
                  scope |-> LET found == SelectSeq(scope_patterns,
                                               LAMBDA p : ContainsAny(full_text, p.keywords))
                            IN  [k \in 1..Len(found) |-> found[k].scope],
                  breaking_change |-> ContainsAny(full_text, {"breaking", "breaking change",
                                                              "major", "!"}),
                  closes_issue |-> \E i \in 1..Len(full_text), verb \in closing_verbs :
                                       closes_issue_at(full_text, i, verb) ]
    IN  CHOOSE a \in
          { analysis(subject, full_text) :
              subject \in {Lower(commit.subject)},
              full_text \in {Lower(Get(commit, "body", ""))} } : TRUE

\* A plausible slip of the classification: the type is looked for in
\* "subject body" like the scope, not in the subject alone.
analyze_single_commit_type_from_full_text(commit) ==
    LET analysis(subject, full_text) ==
            LET hits == {k \in 1..Len(commit_types) : ContainsAny(full_text, commit_types[k].words)}
            IN  [ type |-> IF hits = {} THEN "other"
                           ELSE commit_types[CHOOSE k \in hits : \A h \in hits : k <= h].type,
                  scope |-> LET found == SelectSeq(scope_patterns,
                                               LAMBDA p : ContainsAny(full_text, p.keywords))
                            IN  [k \in 1..Len(found) |-> found[k].scope],
                  breaking_change |-> ContainsAny(full_text, {"breaking", "breaking change",
                                                              "major", "!"}),
                  closes_issue |-> \E i \in 1..Len(full_text), verb \in closing_verbs :
                                       closes_issue_at(full_text, i, verb) ]
    IN  CHOOSE a \in
          { analysis(subject, full_text) :
              subject \in {Lower(commit.subject)},
              full_text \in {Lower(commit.subject \o " " \o Get(commit, "body", ""))} } : TRUE

\* analyze_single_commit: type from the subject; scope, breaking_change and
\* closes_issue from "subject body", all lower-cased.
analyze_single_commit(commit) ==
    LET analysis(subject, full_text) ==
            LET hits == {k \in 1..Len(commit_types) : ContainsAny(subject, commit_types[k].words)}
            IN  [ type |-> IF hits = {} THEN "other"
                           ELSE commit_types[CHOOSE k \in hits : \A h \in hits : k <= h].type,
                  scope |-> LET found == SelectSeq(scope_patterns,
                                               LAMBDA p : ContainsAny(full_text, p.keywords))
                            IN  [k \in 1..Len(found) |-> found[k].scope],
                  breaking_change |-> ContainsAny(full_text, {"breaking", "breaking change",
                                                              "major", "!"}),
                  closes_issue |-> \E i \in 1..Len(full_text), verb \in closing_verbs :
                                       closes_issue_at(full_text, i, verb) ]
    IN  CHOOSE a \in
          { analysis(subject, full_text) :
              subject \in {Lower(commit.subject)},
              full_text \in {Lower(commit.subject \o " " \o Get(commit, "body", ""))} } : TRUE

\* One entry of the log: the first line split at "|" gives the fields when
\* there are four or more, the lines after it are the body; the analysis is
\* merged into the commit.
parse_entry(entry) ==
    LET commit_of(lines, parts) ==
            IF Len(parts) >= 4
            THEN LET commit_data ==
                         [ hash |-> parts[1], subject |-> parts[2], time_ago |-> parts[3],
                           author |-> parts[4],
                           email |-> IF Len(parts) > 4 THEN parts[5] ELSE "",
                           body |-> StripWhite(JoinLines(Tail(lines))) ]
                 IN  << analyze_single_commit(commit_data) @@ commit_data >>
            ELSE <<>>
    IN  IF StripWhite(entry) = "" THEN <<>>
        ELSE CHOOSE c \in
               { CHOOSE d \in {commit_of(lines, parts) : parts \in {Split(lines[1], "|")}} : TRUE
                 : lines \in {Split(entry, "\n")} } : TRUE

RECURSIVE parse_entries(_)
parse_entries(commit_entries) ==
    IF commit_entries = <<>> THEN <<>>
    ELSE parse_entry(Head(commit_entries)) \o parse_entries(Tail(commit_entries))

\* The number of commits the scan asks the log for.
commit_limit == 5

\* get_recent_commits: git log --pretty=format:%H|%s|%ar|%an|%ae|%B, split at
\* blank lines into entries; [] on a non-zero exit and on any exception
\* (timeout, git missing).
get_recent_commits(env, log) ==
    IF env # "ok" THEN <<>>
    ELSE Prefix(parse_entries(Split(StripWhite(log), "\n\n")), commit_limit)

\* What git log can print, and get_recent_commits of each, computed once.
LogOutputs ==
    << "",
       "a1b2c3d4e5|fix: resolve null pointer in auth|2 days ago|Ann|ann@x.io|fix: resolve null pointer in auth\n",
       "b2c3d4e5f6|breaking: #123 fixes login|3 days ago|Bo|bo@x.io|breaking: #123 fixes login\n\n"
         \o "c3d4e5f6a7|hotfix: urgent api outage|4 days ago|Ann|ann@x.io|hotfix: urgent api outage\n",
       "d4e5f6a7b8|feat: add export|5 days ago|Cy|cy@x.io|feat: add export\n\nCloses #7 for the team\n",
       "e5f6a7b8c9|docs: typo|1 day ago|Cy|cy@x.io|docs: typo\n\n"
         \o "f6a7b8c9d0|wip|2 days ago|Cy|cy@x.io|wip\n\n"
         \o "a7b8c9d0e1|breaking: fixes #123 in login|2 days ago|Bo|bo@x.io|breaking: fixes #123 in login\n\n"
         \o "b8c9d0e1f2|asap: critical fix|3 days ago|Bo|bo@x.io|asap: critical fix\n",
       "c9d0e1f2a3|resolve merge conflict|1 day ago|Ann|ann@x.io|resolve merge conflict\n\n"
         \o "d0e1f2a3b4|Add unit test for config|2 days ago|Bo|bo@x.io|Add unit test for config\n\n"
         \o "e1f2a3b4c5|bump build number|2 days ago|Cy|cy@x.io|bump build number\n" >>

RecentCommitsOf ==
    << get_recent_commits("ok", LogOutputs[1]), get_recent_commits("ok", LogOutputs[2]),
       get_recent_commits("ok", LogOutputs[3]), get_recent_commits("ok", LogOutputs[4]),
       get_recent_commits("ok", LogOutputs[5]), get_recent_commits("ok", LogOutputs[6]) >>

\* get_recent_commits(repo_root, limit=5) in a run where git log prints the
\* l-th output.
recent_commits_of(env, l) == IF env # "ok" THEN <<>> ELSE RecentCommitsOf[l]

\* glob.glob of one pattern with a single "*": the star matches within one
\* path component and never a leading dot.
GlobMatch(pattern, p) ==
    LET star == RFind(pattern, "*")
    IN  IF star = 0 THEN p = pattern
        ELSE LET pre == SubSeq(pattern, 1, star - 1)
                 post == SubSeq(pattern, star + 1, Len(pattern))
                 mid == SubSeq(p, Len(pre) + 1, Len(p) - Len(post))
             IN  /\ Len(p) >= Len(pre) + Len(post)
                 /\ StartsWith(p, pre)
                 /\ EndsWith(p, post)
                 /\ ~Contains(mid, "/")
                 /\ ~StartsWith(mid \o post, ".")
                 /\ (Len(mid) > 0 \/ post # "" \/ pre = "")

ImportantPatterns ==
    { "infra/*.tf", "infra/*.yml", "infra/*.yaml", "lambdas/*", "lambda/*",
      "package.json", "requirements.txt", "setup.py", "pyproject.toml",
      "Makefile", "Dockerfile", "docker-compose.yml", ".github/workflows/*", "*.md" }

\* find_important_files: the glob matches that are regular files.
find_important_files ==
    {p \in DiskPaths : PathIsFile(p) /\ \E pat \in ImportantPatterns : GlobMatch(pat, p)}

IdentityFiles ==
    { "README.md", "package.json", "infra/main.tf", "infra/variables.tf",
      "infra/outputs.tf", ".copidock/state.json" }

\* keep_if_exists.
keep_if_exists(paths) == {p \in paths : PathExists(p)}

\* gather_comprehensive.  `order` is the order list(set(...)) gave the
\* changed files in list_changed_files, `log` the number of the output git
\* log prints.
gather_comprehensive(env, order, head_files, log, budget) ==
    LET smart == build_smart_paths(order, budget \div 2)
        last == files_changed_in_last_commit(env, head_files)
        fallback == smart = <<>>
        changed_files == IF fallback THEN last.value ELSE smart
        important_files == find_important_files \cup keep_if_exists(IdentityFiles)
        all_candidates == SortedStrings(Range(changed_files) \cup important_files)
        filtered_candidates == filter_relevant_files(all_candidates)
        final_files == enforce_budget_paths(filtered_candidates, budget)
    IN  IF fallback /\ last.raised
        THEN [raised |-> TRUE, exc |-> last.exc, fallback |-> TRUE,
              all_candidates |-> <<>>, filtered_candidates |-> <<>>,
              final_files |-> <<>>, recent_commits |-> <<>>]
        ELSE [raised |-> FALSE, exc |-> "", fallback |-> fallback,
              all_candidates |-> all_candidates, filtered_candidates |-> filtered_candidates,
              final_files |-> final_files,
              recent_commits |-> recent_commits_of(env, log)]

\* What the three change queries and the last commit can print.
StagedOutputs == {<<>>, <<"api/users.py">>, <<"gone.py">>}
ModifiedOutputs == {<<>>, <<"api/users.py">>, <<"rebuild.py">>}
UntrackedOutputs == {<<>>, <<"logo.png">>, <<"lambdas/h.py">>, <<"node_modules/x.js">>}
HeadOutputs == {<<>>, <<"api/users.py">>, <<"app.log", "lambdas/h.py">>}
ScanIdle ==
    scan = [pc |-> "idle", git |-> "ok", reported |-> {}, head_files |-> <<>>,
            max_tokens |-> 0, raised |-> FALSE, exc |-> "", fallback |-> FALSE,
            all_candidates |-> <<>>, filtered_candidates |-> <<>>,
            final_files |-> <<>>, recent_commits |-> <<>>]

\* One run of gather_comprehensive in some state of git and the index.  A
\* git that fails prints nothing: its outputs are taken empty.
GatherInputs(env, staged, modified, untracked, head_files, log) ==
    /\ env = "ok" \/ (staged = <<>> /\ modified = <<>> /\ untracked = <<>>)
    /\ env = "ok" \/ log = 1
    /\ env \in {"ok", "timeout"} \/ head_files = <<>>

GatherComprehensive ==
    /\ scan.pc = "idle"
    /\ \E env \in GitEnvs, staged \in StagedOutputs, modified \in ModifiedOutputs,
          untracked \in UntrackedOutputs, head_files \in HeadOutputs,
          log \in 1..Len(LogOutputs), budget \in 0..MaxScanTokens :
         /\ GatherInputs(env, staged, modified, untracked, head_files, log)
         /\ \E order \in ListsOf(changed_file_set(env, staged, modified, untracked)) :
              \E r \in {gather_comprehensive(env, order, head_files, log, budget)} :
                  scan' = [pc |-> "done", git |-> env, reported |-> Range(order),
                           head_files |-> head_files, max_tokens |-> budget,
                           raised |-> r.raised, exc |-> r.exc, fallback |-> r.fallback,
                           all_candidates |-> r.all_candidates,
                           filtered_candidates |-> r.filtered_candidates,
                           final_files |-> r.final_files,
                           recent_commits |-> r.recent_commits]


(***************************************************************************)
(* Template resolver: persona templates and their cache.                   *)
(***************************************************************************)
\* A Python value of a persona document or of the template variables.
Str(s) == [kind |-> "str", v |-> s, items |-> <<>>]
List(q) == [kind |-> "list", v |-> "", items |-> q]

\* The personas directory: the documents yaml.safe_load gives for the
\* templates that parse.
PersonaDev ==
    [ name |-> "Senior Backend Developer",
      role |-> "Senior Backend Developer",
      context |-> "working on an existing service",
      guidelines_do |-> <<"Write tests">>,
      guidelines_dont |-> <<"Skip review">>,
      task_priorities |-> <<"Ship the change">>,
      risk_factors |-> <<"Regressions">>,
      focus_areas |-> <<"Code quality", "Testing strategy">>,
      development_contexts |->
          [ api |-> [ specific_guidelines |-> <<"Version the API">>,
                      risk_factors |-> <<"Breaking clients">> ] ],
      template_rules |->
          [ Infrastructure |->
                [ primary_focus |-> Str("infrastructure"),
                  expected_outputs |-> Str("terraform plan") ],
            Frontend |-> << >>,
            Tests |->
                [ primary_focus |-> Str("tests"),
                  task_list |-> Str("- Run the suite") ],
            default |->
                [ primary_focus |-> Str("general"),
                  expected_outputs |-> Str("working code"),
                  constraints |-> Str("none"),
                  task_list |-> List(<<"Review">>) ] ],
      goal_modifiers |->
          << [ pattern |-> "fix|bug",
               modifiers |-> << [key |-> "primary_focus_append", value |-> Str(" (bugfix)")],
                                [key |-> "task_list_append", value |-> List(<<"Add a regression test">>)],
                                [key |-> "constraints", value |-> Str("no new dependencies")] >> ],
             [ pattern |-> "report",
               modifiers |-> << [key |-> "expected_outputs_override", value |-> Str("a report")],
                                [key |-> "primary_focus_override", value |-> Str("reporting")] >> ] >> ]

PersonaDevInitial ==
    [ role |-> "Founding Engineer",
      context |-> "setting up a new project",
      guidelines_do |-> <<"Start small">>,
      guidelines_dont |-> <<"Over-engineer">>,
      task_priorities |-> <<"Choose the stack">>,
      risk_factors |-> <<"Scope creep">>,
      focus_areas |-> <<"Architecture", "Project structure">> ]

\* What is in the personas directory: a document, a file that is no valid
\* YAML, or no file.
PersonaDocs ==
    ("dev" :> PersonaDev) @@ ("dev-initial" :> PersonaDevInitial)
PersonaInvalid == {"broken"}
PersonaMissing == {"ghost"}
PersonaNames == DOMAIN PersonaDocs \cup PersonaInvalid \cup PersonaMissing

\* A plausible slip of load_persona: the cache is not consulted, every call
\* reads the template again and replaces the cached configuration.
load_persona_reread(cache, persona_name) ==
    IF persona_name \in PersonaMissing
    THEN [raised |-> TRUE, msg |-> "Persona template '" \o persona_name \o "' not found",
          opened |-> FALSE, cache |-> cache]
    ELSE IF persona_name \in PersonaInvalid
    THEN [raised |-> TRUE, msg |-> "Invalid YAML in persona '" \o persona_name \o "'",
          opened |-> TRUE, cache |-> cache]
    ELSE [raised |-> FALSE, msg |-> "", opened |-> TRUE,
          cache |-> [n \in DOMAIN cache \cup {persona_name} |->
                        IF n = persona_name THEN PersonaDocs[n] ELSE cache[n]]]

\* load_persona: a cache hit returns the cached object; otherwise the file
\* must exist (ValueError if not), is opened and parsed (ValueError if that
\* fails), and the document is stored in the cache.  The result names the
\* cache afterwards; the configuration returned is cache[persona_name].
load_persona(cache, persona_name) ==
    IF persona_name \in DOMAIN cache
    THEN [raised |-> FALSE, msg |-> "", opened |-> FALSE, cache |-> cache]
    ELSE IF persona_name \in PersonaMissing
    THEN [raised |-> TRUE, msg |-> "Persona template '" \o persona_name \o "' not found",
          opened |-> FALSE, cache |-> cache]
    ELSE IF persona_name \in PersonaInvalid
    THEN [raised |-> TRUE, msg |-> "Invalid YAML in persona '" \o persona_name \o "'",
          opened |-> TRUE, cache |-> cache]
    ELSE [raised |-> FALSE, msg |-> "", opened |-> TRUE,
          cache |-> [n \in DOMAIN cache \cup {persona_name} |->
                        IF n = persona_name THEN PersonaDocs[n] ELSE cache[n]]]

(***************************************************************************)
(* Template resolver: resolve_template_vars.                               *)
(***************************************************************************)
\* str.replace(sub, ""): every occurrence of sub removed, left to right.
RECURSIVE Remove(_, _)
Remove(s, sub) ==
    IF Len(s) < Len(sub) \/ sub = "" THEN s
    ELSE IF SubSeq(s, 1, Len(sub)) = sub
         THEN Remove(SubSeq(s, Len(sub) + 1, Len(s)), sub)
         ELSE Head(s) \o Remove(Tail(s), sub)

\* Where a template variable's value lives: a fresh object ("none"), or the
\* very object held by the cached persona, in a rule block ("rule") or in a
\* goal modifier ("mod").  dict.copy() and dict.update() copy references, so
\* a list taken from the persona is the persona's list.
NoRef == [src |-> "none", cat |-> "", key |-> "", i |-> 0, j |-> 0]
RuleRef(cat, key) == [src |-> "rule", cat |-> cat, key |-> key, i |-> 0, j |-> 0]
ModRef(i, j) == [src |-> "mod", cat |-> "", key |-> "", i |-> i, j |-> j]

category_priority ==
    <<"Infrastructure", "Backend/Lambda", "Frontend", "Tests", "Configuration", "Documentation">>

\* A plausible slip of the selection: an empty rule block is applied as it
\* is, without the fall back to "default".
matched_rule_category_empty_applies(template_rules, file_categories) ==
    LET hits == {k \in 1..Len(category_priority) :
                    /\ category_priority[k] \in file_categories
                    /\ category_priority[k] \in DOMAIN template_rules}
        first == CHOOSE k \in hits : \A m \in hits : k <= m
    IN  IF hits # {} THEN category_priority[first] ELSE "default"

\* The category whose rule block is applied: the first of category_priority
\* that is among the file categories and has a rule; an empty block is
\* falsy, and so is no match: both fall back to "default".
matched_rule_category(template_rules, file_categories) ==
    LET hits == {k \in 1..Len(category_priority) :
                    /\ category_priority[k] \in file_categories
                    /\ category_priority[k] \in DOMAIN template_rules}
        first == CHOOSE k \in hits : \A m \in hits : k <= m
    IN  IF hits # {} /\ DOMAIN template_rules[category_priority[first]] # {}
        THEN category_priority[first]
        ELSE "default"

\* In-place list.extend on the object a reference names.
extend_in_place(cfg, ref, more) ==
    CASE ref.src = "rule" ->
            [cfg EXCEPT !.template_rules[ref.cat][ref.key].items = @ \o more]
      [] ref.src = "mod" ->
            [cfg EXCEPT !.goal_modifiers[ref.i].modifiers[ref.j].value.items = @ \o more]
      [] OTHER -> cfg

\* One (key, value) of a matching goal modifier.
apply_one_modifier(st, i, j) ==
    LET m == st.cfg.goal_modifiers[i].modifiers[j]
        key == m.key
        value == m.value
    IN  IF EndsWith(key, "_append")
        THEN LET base_key == Remove(key, "_append")
             IN  IF base_key \notin DOMAIN st.tv THEN st
                 ELSE LET cur == st.tv[base_key]
                      IN  IF cur.val.kind = "str"
                          THEN IF value.kind = "str"
                               THEN [st EXCEPT !.tv[base_key] =
                                        [val |-> Str(cur.val.v \o value.v), ref |-> NoRef]]
                               ELSE [st EXCEPT !.raised = TRUE, !.msg = "TypeError"]
                          ELSE IF value.kind = "list"
                               THEN [st EXCEPT
                                        !.tv[base_key].val.items = @ \o value.items,
                                        !.cfg = extend_in_place(@, cur.ref, value.items)]
                               ELSE st
        ELSE IF EndsWith(key, "_override")
        THEN [st EXCEPT !.tv = (Remove(key, "_override") :>
                                    [val |-> value, ref |-> ModRef(i, j)]) @@ @]
        ELSE [st EXCEPT !.tv = (key :> [val |-> value, ref |-> ModRef(i, j)]) @@ @]

RECURSIVE apply_modifiers_of(_, _, _)
apply_modifiers_of(st, i, j) ==
    IF st.raised \/ j > Len(st.cfg.goal_modifiers[i].modifiers) THEN st
    ELSE apply_modifiers_of(apply_one_modifier(st, i, j), i, j + 1)

\* any(keyword in goal_lower for keyword in pattern.split("|")).
pattern_matches(pattern, goal_lower) ==
    \E keyword \in Range(SplitBar(pattern, "")) : Contains(goal_lower, keyword)

\* _apply_goal_modifiers: the modifiers in document order.
RECURSIVE apply_goal_modifiers(_, _, _)
apply_goal_modifiers(st, goal_lower, i) ==
    IF st.raised \/ i > Len(Get(st.cfg, "goal_modifiers", <<>>)) THEN st
    ELSE apply_goal_modifiers(
             IF pattern_matches(st.cfg.goal_modifiers[i].pattern, goal_lower)
             THEN apply_modifiers_of(st, i, 1)
             ELSE st,
             goal_lower, i + 1)

\* The CLI overrides: a truthy focus / output / constraints of the context.
Truthy(d, k) == k \in DOMAIN d /\ d[k] # ""

\* A plausible slip: a CLI value only fills a variable nothing has set yet
\* (setdefault), so a rule block or a goal modifier wins over it.
apply_cli_overrides_setdefault(tv, ctx) ==
    LET one(t, ck, vk) ==
            IF Truthy(ctx, ck) /\ vk \notin DOMAIN t
            THEN (vk :> [val |-> Str(ctx[ck]), ref |-> NoRef]) @@ t ELSE t
    IN  one(one(one(tv, "focus", "primary_focus"), "output", "expected_outputs"),
            "constraints", "constraints")

apply_cli_overrides(tv, ctx) ==
    LET one(t, ck, vk) ==
            IF Truthy(ctx, ck) THEN (vk :> [val |-> Str(ctx[ck]), ref |-> NoRef]) @@ t ELSE t
    IN  one(one(one(tv, "focus", "primary_focus"), "output", "expected_outputs"),
            "constraints", "constraints")

\* "\n".join(f"- {x}" for x in items).
RECURSIVE Bullets(_)
Bullets(items) ==
    IF items = <<>> THEN ""
    ELSE "- " \o Head(items) \o (IF Len(items) > 1 THEN "\n" ELSE "") \o Bullets(Tail(items))

\* task_list, when it is a list, becomes its bulleted rendering.
format_task_list(tv) ==
    IF "task_list" \in DOMAIN tv /\ tv["task_list"].val.kind = "list"
    THEN [tv EXCEPT !["task_list"] = [val |-> Str(Bullets(@.val.items)), ref |-> NoRef]]
    ELSE tv

\* An enhanced context: None, or a dict of strings.
NoneCtx == [none |-> TRUE, d |-> << >>]
Ctx(d) == [none |-> FALSE, d |-> d]
\* "if enhanced_context is None: enhanced_context = {}".
OrEmpty(ctx) == IF ctx.none THEN << >> ELSE ctx.d

\* resolve_template_vars, after load_persona succeeded: cfg is the cached
\* persona object, ctx the enhanced context.  Gives the variables, the
\* persona object as the call leaves it, and whether it raised.
resolve_template_vars(cfg, thread_data, file_categories, ctx) ==
    LET goal == Get(thread_data, "goal", "development task")
        base == [ goal |-> [val |-> Str(goal), ref |-> NoRef],
                  repo |-> [val |-> Str(Get(thread_data, "repo", "project")), ref |-> NoRef],
                  branch |-> [val |-> Str(Get(thread_data, "branch", "main")), ref |-> NoRef],
                  persona_name |-> [val |-> Str(Get(cfg, "name", "Developer")), ref |-> NoRef] ]
        template_rules == Get(cfg, "template_rules", << >>)
        cat == matched_rule_category(template_rules, file_categories)
        matched_rule == Get(template_rules, cat, << >>)
        with_rule == [k \in DOMAIN matched_rule |->
                         [val |-> matched_rule[k],
                          ref |-> IF matched_rule[k].kind = "list"
                                  THEN RuleRef(cat, k) ELSE NoRef]] @@ base
        modified == apply_goal_modifiers(
                        [tv |-> with_rule, cfg |-> cfg, raised |-> FALSE, msg |-> ""],
                        Lower(goal), 1)
    IN  [modified EXCEPT !.tv = format_task_list(apply_cli_overrides(@, OrEmpty(ctx)))]

(***************************************************************************)
(* Development context analyzer (cli/synthesis/analysis.py).               *)
(***************************************************************************)

\* The file type of one path: keyword tests on the lower-cased path, first
\* match wins (path_lower is computed once, as in the code).
file_type(file_path) ==
    LET type_of(path_lower) ==
            CASE ContainsAny(path_lower, {"api/", "endpoints/", "routes/", "controllers/"})
                    -> "api"
              [] ContainsAny(path_lower, {"frontend/", "ui/", "components/", "views/",
                                          ".vue", ".jsx", ".tsx"}) -> "frontend"
              [] ContainsAny(path_lower, {"migration", "schema", "models/", "database/"})
                    -> "database"
              [] ContainsAny(path_lower, {"test", "spec", "__tests__"}) -> "tests"
              [] ContainsAny(path_lower, {"config", "settings", ".env", "docker", "deploy"})
                    -> "config"
              [] ContainsAny(path_lower, {"readme", "docs/", ".md", "documentation"}) -> "docs"
              [] OTHER -> "other"
    IN  CHOOSE t \in {type_of(path_lower) : path_lower \in {Lower(file_path)}} : TRUE

\* The keys of the patterns dict, in insertion order.
pattern_areas == <<"api", "frontend", "database", "tests", "config", "docs", "other">>

\* analyze_file_patterns: the count of each type, and the number of files.
analyze_file_patterns(paths) ==
    LET count(a) == Cardinality({i \in 1..Len(paths) : file_type(paths[i]) = a})
    IN  [ patterns |-> [ api |-> count("api"), frontend |-> count("frontend"),
                         database |-> count("database"), tests |-> count("tests"),
                         config |-> count("config"), docs |-> count("docs"),
                         other |-> count("other") ],
          total_files |-> Len(paths) ]

\* determine_work_area: the first area, in insertion order, whose count is
\* the maximum over all areas and that is not "other"; "general" when no
\* file was counted or only "other" reaches the maximum.
determine_work_area(file_analysis) ==
    LET patterns == file_analysis.patterns
        max_files == CHOOSE n \in Range([k \in 1..Len(pattern_areas) |-> patterns[pattern_areas[k]]]) :
                        \A a \in DOMAIN patterns : patterns[a] <= n
        hits == {k \in 1..Len(pattern_areas) :
                    patterns[pattern_areas[k]] = max_files /\ pattern_areas[k] # "other"}
    IN  IF max_files = 0 \/ hits = {} THEN "general"
        ELSE pattern_areas[CHOOSE k \in hits : \A m \in hits : k <= m]

\* " ".join(commit.get("message", "").lower() for commit in recent_commits).
RECURSIVE combined_text(_)
combined_text(commits) ==
    IF commits = <<>> THEN ""
    ELSE Lower(Get(Head(commits), "message", ""))
         \o (IF Len(commits) > 1 THEN " " ELSE "") \o combined_text(Tail(commits))

intent_patterns ==
    << [intent |-> "feature",  keywords |-> {"add", "implement", "create", "new"}],
       [intent |-> "bugfix",   keywords |-> {"fix", "bug", "issue", "resolve", "correct"}],
       [intent |-> "refactor", keywords |-> {"refactor", "clean", "improve", "optimize"}],
       [intent |-> "docs",     keywords |-> {"docs", "documentation", "readme", "comment"}],
       [intent |-> "test",     keywords |-> {"test", "testing", "spec", "coverage"}],
       [intent |-> "config",   keywords |-> {"config", "setup", "deploy", "ci", "build"}] >>

\* The intent with the strictly largest number of matching keywords, the
\* first such in insertion order; "general" when nothing matches.
RECURSIVE detect_intent(_, _, _, _)
detect_intent(text, k, max_matches, detected) ==
    IF k > Len(intent_patterns) THEN detected
    ELSE LET matches == Cardinality({w \in intent_patterns[k].keywords : Contains(text, w)})
         IN  IF matches > max_matches
             THEN detect_intent(text, k + 1, matches, intent_patterns[k].intent)
             ELSE detect_intent(text, k + 1, max_matches, detected)

\* The counters of analyze_commit_patterns and the words that add to each,
\* in the order the subject is tested against them.
subject_patterns ==
    << [count |-> "fix_commits",
        words |-> {"fix", "bug", "error", "issue", "resolve"}],
       [count |-> "feature_commits",
        words |-> {"feat", "feature", "add", "implement", "new"}],
       [count |-> "refactor_commits",
        words |-> {"refactor", "cleanup", "improve", "optimize"}],
       [count |-> "test_commits",
        words |-> {"test", "spec", "coverage", "unit", "integration"}],
       [count |-> "docs_commits",
        words |-> {"doc", "readme", "comment", "documentation"}],
       [count |-> "config_commits",
        words |-> {"config", "setup", "env", "deploy", "build"}] >>

\* The counter one commit adds to: none for an empty subject, else the
\* first whose words the lower-cased subject contains, 0 when there is none.
counted_as(commit) ==
    CHOOSE first \in
      { IF subject = "" \/ hits = {} THEN 0 ELSE CHOOSE k \in hits : \A h \in hits : k <= h
        : hits \in { {k \in 1..Len(subject_patterns) :
                         ContainsAny(subject, subject_patterns[k].words)}
                     : subject \in {Lower(Get(commit, "subject", ""))} },
          subject \in {Lower(Get(commit, "subject", ""))} } : TRUE

\* The six counters after the loop over the commits.
count_commits(recent_commits) ==
    CHOOSE counts \in
      { [name \in {subject_patterns[k].count : k \in 1..Len(subject_patterns)} |->
            Cardinality({i \in 1..Len(recent_commits) :
                            /\ added[i] > 0
                            /\ subject_patterns[added[i]].count = name})]
        : added \in {[i \in 1..Len(recent_commits) |-> counted_as(recent_commits[i])]} } : TRUE

\* analyze_commit_patterns: the six counters and the fields the synthesizer
\* reads.
analyze_commit_patterns(recent_commits) ==
    IF recent_commits = <<>>
    THEN [intent |-> "unknown", urgency |-> "normal", commit_count |-> 0]
         @@ count_commits(<<>>)
    ELSE LET text == combined_text(recent_commits)
         IN  count_commits(recent_commits) @@
             [ intent |-> detect_intent(text, 1, 0, "general"),
               urgency |-> IF ContainsAny(text, {"urgent", "critical", "hotfix",
                                                 "emergency", "asap"})
                           THEN "high" ELSE "normal",
               commit_count |-> Len(recent_commits) ]

\* assess_change_impact.
assess_change_impact(file_analysis, commit_analysis) ==
    LET file_count == file_analysis.total_files
        commit_count == commit_analysis.commit_count
    IN  IF commit_analysis.urgency = "high" \/ file_count > 10 \/ commit_count > 5 THEN "high"
        ELSE IF file_count > 5 \/ commit_count > 3 THEN "medium"
        ELSE "low"

\* generate_development_recommendations.
generate_development_recommendations(work_area, file_analysis, commit_analysis) ==
    (CASE work_area = "api" ->
            << "Test all modified API endpoints thoroughly",
               "Verify authentication and authorization still work",
               "Update API documentation (OpenAPI/Swagger)",
               "Check for breaking changes in API contracts" >>
       [] work_area = "frontend" ->
            << "Test across different browsers and screen sizes",
               "Check mobile responsiveness",
               "Verify accessibility compliance",
               "Test user interactions and workflows" >>
       [] work_area = "database" ->
            << "Create reversible database migrations",
               "Test migrations on staging data first",
               "Backup production data before deployment",
               "Monitor query performance impact" >>
       [] work_area = "tests" ->
            << "Run full test suite to ensure no regressions",
               "Check test coverage metrics",
               "Verify tests are not flaky or interdependent",
               "Update test documentation if needed" >>
       [] OTHER -> <<>>)
    \o
    (CASE commit_analysis.intent = "feature" ->
            << "Document the new feature functionality",
               "Add comprehensive tests for the new feature",
               "Consider feature flags for gradual rollout" >>
       [] commit_analysis.intent = "bugfix" ->
            << "Add regression tests to prevent future occurrences",
               "Verify the fix doesn't introduce new issues",
               "Document the root cause and solution" >>
       [] OTHER -> <<>>)

\* identify_risk_areas.
identify_risk_areas(work_area, file_analysis) ==
    (CASE work_area = "api" ->
            << "Breaking API contracts for existing clients",
               "Authentication or authorization bypass",
               "Performance impact on high-traffic endpoints" >>
       [] work_area = "database" ->
            << "Data loss during migration",
               "Performance degradation of existing queries",
               "Constraint violations with existing data" >>
       [] work_area = "frontend" ->
            << "Cross-browser compatibility issues",
               "Mobile device performance problems",
               "Accessibility regressions" >>
       [] OTHER -> <<>>)
    \o
    (IF file_analysis.total_files > 5
     THEN <<"High number of file changes increases integration risk">> ELSE <<>>)

\* analyze_development_context.
analyze_development_context(paths, recent_commits) ==
    LET file_analysis == analyze_file_patterns(paths)
        commit_analysis == analyze_commit_patterns(recent_commits)
        work_area == determine_work_area(file_analysis)
    IN  [ work_area |-> work_area,
          change_impact |-> assess_change_impact(file_analysis, commit_analysis),
          file_analysis |-> file_analysis,
          commit_analysis |-> commit_analysis,
          recommendations |->
              generate_development_recommendations(work_area, file_analysis,
                                                   commit_analysis),
          risk_areas |-> identify_risk_areas(work_area, file_analysis) ]

(***************************************************************************)
(* Stage synthesizer (cli/synthesis/development.py, initial.py).           *)
(***************************************************************************)
UpperOf ==
    [c \in {CharAt(LowerLetters, i) : i \in 1..Len(LowerLetters)} |->
        CharAt(UpperLetters, CHOOSE i \in 1..Len(LowerLetters) : CharAt(LowerLetters, i) = c)]

\* str.title(): a letter that follows a letter is lower-cased, any other
\* letter is upper-cased.
RECURSIVE TitleFrom(_, _)
TitleFrom(s, after_letter) ==
    IF s = "" THEN ""
    ELSE LET c == Head(s)
             letter == c \in DOMAIN UpperOf \/ c \in DOMAIN LowerOf
             out == IF ~letter THEN c
                    ELSE IF after_letter
                         THEN (IF c \in DOMAIN LowerOf THEN LowerOf[c] ELSE c)
                         ELSE (IF c \in DOMAIN UpperOf THEN UpperOf[c] ELSE c)
         IN  out \o TitleFrom(Tail(s), letter)

Title(s) == TitleFrom(s, FALSE)

\* str.replace("_", " ").
RECURSIVE UnderscoresToSpaces(_)
UnderscoresToSpaces(s) ==
    IF s = "" THEN ""
    ELSE (IF Head(s) = "_" THEN " " ELSE Head(s)) \o UnderscoresToSpaces(Tail(s))

\* str(n) of a small natural number.
\* "\n".join(f"{i+1}. {x}" for i, x in enumerate(items)).
Numbered(items) == JoinLines([i \in 1..Len(items) |-> IntStr(i) \o ". " \o items[i]])

\* The persona object after the two in-place extensions of
\* synthesize_development_operator_instructions_with_template: the lists
\* .get() returns are the persona's own lists when the keys are there.
extend_persona_lists(persona_config, work_area) ==
    LET dev_contexts == Get(persona_config, "development_contexts", << >>)
    IN  IF work_area \notin DOMAIN dev_contexts THEN persona_config
        ELSE LET context_specific == dev_contexts[work_area]
             IN  [k \in DOMAIN persona_config |->
                    IF k = "guidelines_do"
                    THEN persona_config[k] \o Get(context_specific, "specific_guidelines", <<>>)
                    ELSE IF k = "risk_factors"
                    THEN persona_config[k] \o Get(context_specific, "risk_factors", <<>>)
                    ELSE persona_config[k]]

synthesize_development_operator_instructions_with_template(enhanced_context, persona, persona_config, dev_context) ==
    LET focus == Get(enhanced_context, "focus", "development work")
        output == Get(enhanced_context, "output", "working implementation")
        work_area == dev_context.work_area
        dev_contexts == Get(persona_config, "development_contexts", << >>)
        specific == IF work_area \in DOMAIN dev_contexts THEN dev_contexts[work_area] ELSE << >>
        guidelines_do == Get(persona_config, "guidelines_do", <<>>)
                            \o Get(specific, "specific_guidelines", <<>>)
        guidelines_dont == Get(persona_config, "guidelines_dont", <<>>)
        task_priorities == Get(persona_config, "task_priorities", <<>>)
        risk_factors == Get(persona_config, "risk_factors", <<>>)
                            \o Get(specific, "risk_factors", <<>>)
    IN  "## Operator Instructions\n\nYou are a **"
        \o Get(persona_config, "role", "Senior Backend Developer") \o "** "
        \o Get(persona_config, "context", "working on development tasks") \o ".\n\n"
        \o "**Primary Focus**: " \o focus \o "\n"
        \o "**Development Area**: " \o Title(work_area) \o " Development\n"
        \o "**Change Impact**: " \o Title(dev_context.change_impact) \o "\n\n"
        \o "### Guidelines\n\n**Do:**\n" \o Bullets(guidelines_do) \o "\n\n"
        \o "**Don't:**\n" \o Bullets(guidelines_dont) \o "\n\n"
        \o "### Development Tasks for This Session\n" \o Bullets(task_priorities) \o "\n\n"
        \o "### Context-Specific Recommendations\n" \o Bullets(dev_context.recommendations)
        \o "\n\n### Expected Outputs\n" \o output \o "\n\n"
        \o "### Risk Factors\n" \o Bullets(risk_factors) \o "\n\n---\n"

synthesize_development_current_state(paths, recent_commits, dev_context) ==
    LET work_area == dev_context.work_area
        intent == dev_context.commit_analysis.intent
        commit_count == IntStr(dev_context.commit_analysis.commit_count)
        patterns == dev_context.file_analysis.patterns
        shown == SelectSeq(pattern_areas, LAMBDA a : patterns[a] > 0 /\ a # "other")
        breakdown_items == [i \in 1..Len(shown) |->
                               "- **" \o Title(shown[i]) \o "**: "
                               \o IntStr(patterns[shown[i]]) \o " files"]
        breakdown == IF breakdown_items # <<>> THEN JoinLines(breakdown_items)
                     ELSE "- General development work"
    IN  "## Current Development State\n\n"
        \o "**Modified Files**: " \o IntStr(Len(paths)) \o " files across "
        \o work_area \o " area\n"
        \o "**Recent Work**: " \o commit_count \o " commits focused on " \o intent \o " work\n\n"
        \o "### File Breakdown\n" \o breakdown \o "\n\n"
        \o "### Development Context\n"
        \o "- **Primary Area**: " \o Title(work_area) \o " development\n"
        \o "- **Change Impact**: " \o Title(dev_context.change_impact) \o "\n"
        \o "- **Work Intent**: " \o Title(intent) \o " implementation\n\n"
        \o "### Recent Activity\n"
        \o "- Last " \o commit_count \o " commits show " \o intent \o " work\n"
        \o "- " \o IntStr(Len(paths)) \o " files modified in current session\n"
        \o "- Focus area: " \o work_area \o " development\n\n"

\* The approach line of one focus area: the first keyword its lower-cased
\* name contains, none when it contains no keyword.
development_approach_item(area) ==
    LET a == Lower(area)
    IN  CASE Contains(a, "quality") ->
                <<"- **Code Quality**: Maintain consistency with existing codebase">>
          [] Contains(a, "testing") ->
                <<"- **Testing**: Comprehensive testing for all modifications">>
          [] Contains(a, "documentation") ->
                <<"- **Documentation**: Update docs to reflect changes">>
          [] Contains(a, "integration") ->
                <<"- **Integration**: Ensure compatibility with existing systems">>
          [] Contains(a, "performance") ->
                <<"- **Performance**: Monitor and optimize performance impact">>
          [] Contains(a, "security") ->
                <<"- **Security**: Review security implications of changes">>
          [] OTHER -> <<>>

\* The approach lines of the focus areas, in order.
RECURSIVE development_approach_items(_)
development_approach_items(focus_areas) ==
    IF focus_areas = <<>> THEN <<>>
    ELSE development_approach_item(Head(focus_areas))
         \o development_approach_items(Tail(focus_areas))

synthesize_development_decisions_constraints_with_template(enhanced_context, persona_config, dev_context) ==
    LET constraints == Get(enhanced_context, "constraints", "best practices")
        work_area == dev_context.work_area
        approach_items == development_approach_items(
                                  Get(persona_config, "focus_areas", <<>>))
        priorities ==
            CASE work_area = "api" ->
                    << "**API Compatibility**: Maintain backwards compatibility",
                       "**Testing**: Test all endpoints and edge cases",
                       "**Documentation**: Update API documentation",
                       "**Performance**: Monitor response times and throughput" >>
              [] work_area = "frontend" ->
                    << "**User Experience**: Maintain consistent UI patterns",
                       "**Cross-Browser**: Test across different browsers",
                       "**Performance**: Optimize for mobile and desktop",
                       "**Accessibility**: Ensure accessibility compliance" >>
              [] work_area = "database" ->
                    << "**Data Integrity**: Ensure migration safety",
                       "**Performance**: Monitor query performance impact",
                       "**Rollback**: Plan rollback strategies",
                       "**Testing**: Test migrations on staging data" >>
              [] OTHER ->
                    << "**Code Quality**: Follow established patterns",
                       "**Testing**: Add comprehensive test coverage",
                       "**Integration**: Verify system integration",
                       "**Documentation**: Update relevant documentation" >>
    IN  "## Decisions & Constraints\n\n**Project Requirements**: " \o constraints
        \o "\n\n## Technical Approach\n" \o JoinLines(approach_items)
        \o "\n\n## Development Priorities\n" \o Numbered(priorities)

synthesize_development_open_questions(dev_context, paths, recent_commits) ==
    LET work_area == dev_context.work_area
        area_questions ==
            CASE work_area = "api" ->
                    << "Are there any breaking changes in the API modifications?",
                       "Do we need to version these API changes?",
                       "Have all authentication scenarios been tested?",
                       "Is the API documentation up to date?" >>
              [] work_area = "database" ->
                    << "Can these database changes be rolled back safely?",
                       "Have migrations been tested with production-like data?",
                       "Will these changes impact query performance?",
                       "Are there any data integrity concerns?" >>
              [] work_area = "frontend" ->
                    << "Have these changes been tested on mobile devices?",
                       "Are there any accessibility concerns with the UI changes?",
                       "Do these changes impact page load performance?",
                       "Are the UI patterns consistent with the rest of the application?" >>
              [] OTHER -> <<>>
        specific ==
            area_questions
            \o (IF dev_context.change_impact = "high"
                THEN << "Should these high-impact changes be deployed gradually?",
                        "Do we have adequate monitoring for these changes?",
                        "Is there a rollback plan if issues arise?" >>
                ELSE <<>>)
            \o (IF Len(dev_context.recommendations) > 3
                THEN <<"Are there too many changes being made at once?">> ELSE <<>>)
            \o (IF Len(paths) > 8
                THEN <<"Should this work be broken into smaller, more focused changes?">>
                ELSE <<>>)
        questions ==
            IF specific # <<>> THEN specific
            ELSE << "Are there any potential integration issues with existing code?",
                    "Have all edge cases been considered and tested?",
                    "Is additional documentation needed for these changes?",
                    "Are there performance implications to consider?" >>
        risks == dev_context.risk_areas
    IN  "## Open Questions & Considerations\n\n### Development Questions\n"
        \o Bullets(questions) \o "\n\n### Risk Assessment\n"
        \o (IF risks # <<>> THEN Bullets(risks) ELSE "- Standard development risks apply")
        \o "\n\n### Next Steps\n- Review and address the questions above\n"
        \o "- Complete testing based on recommendations\n"
        \o "- Update documentation as needed\n"
        \o "- Plan deployment and monitoring strategy"

\* The approach line of one focus area in the initial stage.
initial_approach_item(area) ==
    LET a == Lower(area)
    IN  CASE Contains(a, "architecture") ->
                <<"- **Architecture**: Design for scalability and maintainability">>
          [] Contains(a, "technology") ->
                <<"- **Technology**: Select proven, well-supported technologies">>
          [] Contains(a, "development") \/ Contains(a, "environment") ->
                <<"- **Development**: Set up proper development and testing environment">>
          [] Contains(a, "project structure") \/ Contains(a, "setup") ->
                <<"- **Documentation**: Document key architectural decisions">>
          [] OTHER -> <<>>

\* The approach lines of the focus areas, in order.
RECURSIVE initial_approach_items(_)
initial_approach_items(focus_areas) ==
    IF focus_areas = <<>> THEN <<>>
    ELSE initial_approach_item(Head(focus_areas))
         \o initial_approach_items(Tail(focus_areas))

\* The text synthesize_initial_operator_instructions_with_template builds
\* once the template is loaded.
synthesize_initial_operator_instructions_with_template(enhanced_context, persona_config) ==
    "## Operator Instructions\n\nYou are a **"
    \o Get(persona_config, "role", "Senior Backend Developer") \o "** "
    \o Get(persona_config, "context", "setting up a new project") \o ".\n\n"
    \o "**Primary Focus**: " \o Get(enhanced_context, "focus", "project setup") \o "\n\n"
    \o "### Guidelines\n\n**Do:**\n"
    \o Bullets(Get(persona_config, "guidelines_do", <<>>)) \o "\n\n"
    \o "**Don't:**\n" \o Bullets(Get(persona_config, "guidelines_dont", <<>>)) \o "\n\n"
    \o "### Tasks for This Session\n"
    \o Bullets(Get(persona_config, "task_priorities", <<>>)) \o "\n\n"
    \o "### Expected Outputs\n" \o Get(enhanced_context, "output", "working foundation")
    \o "\n\n### Risk Factors\n"
    \o Bullets(Get(persona_config, "risk_factors", <<>>)) \o "\n\n---\n"

synthesize_initial_operator_instructions_empty(enhanced_context, persona) ==
    "## Operator Instructions\n\n"
    \o "You are a **Senior Backend Developer** setting up a new project from scratch.\n\n"
    \o "**Primary Focus**: " \o Get(enhanced_context, "focus", "project setup") \o "\n\n"
    \o "### Guidelines\n\n**Do:**\n\n**Don't:**\n\n### Tasks for This Session\n\n"
    \o "### Expected Outputs\n" \o Get(enhanced_context, "output", "working foundation")
    \o "\n\n### Risk Factors\n\n---\n"

synthesize_initial_decisions_constraints_with_template(enhanced_context, persona_config) ==
    "## Decisions & Constraints\n\n**Project Requirements**: "
    \o Get(enhanced_context, "constraints", "best practices")
    \o "\n\n## Technical Approach\n"
    \o JoinLines(initial_approach_items(Get(persona_config, "focus_areas", <<>>)))
    \o "\n\n## Initial Setup Priorities\n"
    \o "1. **Architecture Design**: Define system boundaries and component interactions\n"
    \o "2. **Technology Selection**: Choose appropriate frameworks and databases\n"
    \o "3. **Environment Setup**: Configure development and deployment environments\n"
    \o "4. **Foundation Code**: Create project structure and basic scaffolding"

synthesize_initial_decisions_constraints_empty(enhanced_context) ==
    "## Decisions & Constraints\n\n**Project Requirements**: "
    \o Get(enhanced_context, "constraints", "best practices")
    \o "\n\n## Technical Approach\n\n## Initial Setup Priorities\n1. \n2. \n3. \n4. "

\* The outcome of a synthesis call: the sections when it returns, the
\* message when it raises, the persona cache as the call leaves it, and
\* whether a template file was opened.
Returned(sections, cache, opened_file) ==
    [raised |-> FALSE, msg |-> "", sections |-> sections, cache |-> cache,
     opened |-> opened_file]
Raised(msg, cache, opened_file) ==
    [raised |-> TRUE, msg |-> msg, sections |-> << >>, cache |-> cache,
     opened |-> opened_file]

\* generate_initial_stage_snapshot: with the template (comprehensive), both
\* template-backed sections load the persona named exactly {persona}; the
\* second load is a cache hit.  A failing load raises ValueError naming
\* "{persona}.yml", and so does a None context (its .get fails inside the
\* try, after the load); without the template a None context fails uncaught.
generate_initial_stage_snapshot(cache, thread_data, context, persona, comprehensive) ==
    LET enhanced_context == context.d IN
    IF comprehensive
    THEN LET loaded == load_persona(cache, persona)
         IN  IF loaded.raised \/ context.none
             THEN Raised("Missing required template file: " \o persona \o ".yml",
                         loaded.cache, loaded.opened)
             ELSE LET persona_config == loaded.cache[persona]
                  IN  Returned(
                        [ operator_instructions |->
                              Str(synthesize_initial_operator_instructions_with_template(
                                      enhanced_context, persona_config)),
                          current_state |->
                              Str("This is a greenfield project - comprehensive template guidance provided."),
                          decisions_constraints |->
                              Str(synthesize_initial_decisions_constraints_with_template(
                                      enhanced_context, persona_config)),
                          open_questions |->
                              Str("Template-based questions and considerations provided.") ],
                        loaded.cache, loaded.opened)
    ELSE IF context.none THEN Raised("AttributeError", cache, FALSE)
    ELSE Returned(
            [ operator_instructions |->
                  Str(synthesize_initial_operator_instructions_empty(enhanced_context, persona)),
              current_state |->
                  Str("This is a greenfield project - empty structure provided for customization."),
              decisions_constraints |->
                  Str(synthesize_initial_decisions_constraints_empty(enhanced_context)),
              open_questions |-> Str("No predefined questions - customize as needed.") ],
            cache, FALSE)

(***************************************************************************)
(* Domain hints (interactive/domains.py).                                  *)
(***************************************************************************)
\* The domains directory: what yaml.safe_load gives for each template file.
DomainTemplates ==
    ("pwa" :> [ display_name |-> "Progressive Web App",
                synthesis_hints |->
                    ("operator_instructions" :> Str("Use service workers"))
                    @@ ("testing_strategy" :> Str("Test offline mode")) ])
    @@ ("audit" :> [ synthesis_hints |-> ("risk_notes" :> List(<<"PII", "Retention">>)) ])
    @@ ("plain" :> [ display_name |-> "Plain" ])

\* load_domain_template: None (here the empty dict, equally falsy) when
\* there is no file.
load_domain_template(domain_name) == Get(DomainTemplates, domain_name, << >>)

get_domain_synthesis_hints(domain_name) ==
    Get(load_domain_template(domain_name), "synthesis_hints", << >>)

format_section_header(section_name) ==
    "## " \o Title(UnderscoresToSpaces(section_name)) \o "\n\n"

\* str() of a hint value inside an f-string.
RECURSIVE QuotedItems(_)
QuotedItems(items) ==
    IF items = <<>> THEN ""
    ELSE "'" \o Head(items) \o "'" \o (IF Len(items) > 1 THEN ", " ELSE "")
         \o QuotedItems(Tail(items))
PyStr(value) == IF value.kind = "str" THEN value.v ELSE "[" \o QuotedItems(value.items) \o "]"

\* A plausible slip of merge_synthesis_hints: hints for sections the
\* synthesizer did not produce are dropped.
merge_synthesis_hints_known_only(base_sections, domain_hints) ==
    [ raised |-> FALSE,
      merged |-> [k \in DOMAIN base_sections |->
                    IF k \in DOMAIN domain_hints
                    THEN Str(base_sections[k].v \o "\n\n### Domain-Specific Guidance\n\n"
                             \o PyStr(domain_hints[k]))
                    ELSE base_sections[k]] ]

\* merge_synthesis_hints: a hint for an existing section is appended under a
\* sub-heading; a hint for any other name becomes a new section, header +
\* content, and "str + non-str" raises TypeError.
merge_synthesis_hints(base_sections, domain_hints) ==
    [ raised |-> \E k \in DOMAIN domain_hints \ DOMAIN base_sections :
                    domain_hints[k].kind # "str",
      merged |-> [k \in DOMAIN base_sections \cup DOMAIN domain_hints |->
                    IF k \in DOMAIN base_sections
                    THEN IF k \in DOMAIN domain_hints
                         THEN Str(base_sections[k].v \o "\n\n### Domain-Specific Guidance\n\n"
                                  \o PyStr(domain_hints[k]))
                         ELSE base_sections[k]
                    ELSE Str(format_section_header(k) \o domain_hints[k].v)] ]

\* The scanner results the synthesizer is called with.
ScanInputs ==
    << [paths |-> <<>>, commits |-> <<>>],
       [paths |-> <<"api/users.py", "README.md">>,
        commits |-> << [hash |-> "a1b2c3d", subject |-> "fix login bug"] >>],
       [paths |-> <<"rebuild.py">>,
        commits |-> << [hash |-> "e4f5a6b", subject |-> "hotfix",
                        message |-> "Fix urgent bug in rebuild"] >>] >>

\* The development-context analysis of each scan input, computed once.
DevContextOf ==
    << analyze_development_context(ScanInputs[1].paths, ScanInputs[1].commits),
       analyze_development_context(ScanInputs[2].paths, ScanInputs[2].commits),
       analyze_development_context(ScanInputs[3].paths, ScanInputs[3].commits) >>

\* analyze_development_context(file_paths, recent_commits, repo_root), looked
\* up when the input is a scan input.
development_context(paths, recent_commits) ==
    LET known == {i \in 1..Len(ScanInputs) :
                    ScanInputs[i].paths = paths /\ ScanInputs[i].commits = recent_commits}
    IN  IF known # {} THEN DevContextOf[CHOOSE i \in known : TRUE]
        ELSE analyze_development_context(paths, recent_commits)

(***************************************************************************)
(* Stage synthesizer: the two branches and the router.                     *)
(***************************************************************************)
\* A plausible slip of generate_development_stage_snapshot: without the
\* template it answers with sections built from the analysis alone.
generate_development_stage_snapshot_fallback(cache, thread_data, paths, recent_commits, persona, context) ==
    LET dev_context == development_context(paths, recent_commits)
        loaded == load_persona(cache, persona)
    IN  Returned(
            [ operator_instructions |-> Str("## Operator Instructions\n\n"),
              current_state |->
                  Str(synthesize_development_current_state(paths, recent_commits, dev_context)),
              decisions_constraints |-> Str("## Decisions & Constraints\n\n"),
              open_questions |->
                  Str(synthesize_development_open_questions(dev_context, paths,
                                                            recent_commits)) ],
            loaded.cache, loaded.opened)

\* generate_development_stage_snapshot: the analysis, the load of the
\* template named exactly {persona}, the four sections (the first of which
\* extends the persona's own lists), then the domain hints.  Whatever fails
\* after the analysis becomes ValueError "Missing required template file:
\* {persona}"; what the call did to the cached persona before stays done.
generate_development_stage_snapshot(cache, thread_data, paths, recent_commits, persona, context) ==
    LET enhanced_context == OrEmpty(context)
        dev_context == development_context(paths, recent_commits)
        loaded == load_persona(cache, persona)
    IN  IF loaded.raised
        THEN Raised("Missing required template file: " \o persona, loaded.cache, loaded.opened)
        ELSE
        LET persona_config == loaded.cache[persona]
            after == [loaded.cache EXCEPT
                        ![persona] = extend_persona_lists(@, dev_context.work_area)]
            sections ==
                [ operator_instructions |->
                      Str(synthesize_development_operator_instructions_with_template(
                              enhanced_context, persona, persona_config, dev_context)),
                  current_state |->
                      Str(synthesize_development_current_state(paths, recent_commits,
                                                               dev_context)),
                  decisions_constraints |->
                      Str(synthesize_development_decisions_constraints_with_template(
                              enhanced_context, persona_config, dev_context)),
                  open_questions |->
                      Str(synthesize_development_open_questions(dev_context, paths,
                                                                recent_commits)) ]
            domain == Get(enhanced_context, "domain", "")
            domain_hints == IF domain # "" THEN get_domain_synthesis_hints(domain) ELSE << >>
        IN  IF DOMAIN domain_hints = {}
            THEN Returned(sections, after, loaded.opened)
            ELSE LET m == merge_synthesis_hints(sections, domain_hints)
                 IN  IF m.raised
                     THEN Raised("Missing required template file: " \o persona,
                                 after, loaded.opened)
                     ELSE Returned(m.merged, after, loaded.opened)

\* A plausible slip of the router: the stage is compared without regard to
\* case.
generate_comprehensive_snapshot_any_case(cache, thread_data, paths, recent_commits, persona, context) ==
    LET enhanced_context == OrEmpty(context)
        stage == Get(enhanced_context, "stage", "development")
    IN  IF Lower(stage) = "initial"
        THEN [branch |-> "initial"]
             @@ generate_initial_stage_snapshot(cache, thread_data, Ctx(enhanced_context),
                                                persona, TRUE)
        ELSE [branch |-> "development"]
             @@ generate_development_stage_snapshot(cache, thread_data, paths, recent_commits,
                                                    persona, Ctx(enhanced_context))

\* generate_comprehensive_snapshot: None becomes {}, the stage defaults to
\* "development", and exactly the stage "initial" takes the initial branch.
generate_comprehensive_snapshot(cache, thread_data, paths, recent_commits, persona, context) ==
    LET enhanced_context == OrEmpty(context)
        stage == Get(enhanced_context, "stage", "development")
    IN  IF stage = "initial"
        THEN [branch |-> "initial"]
             @@ generate_initial_stage_snapshot(cache, thread_data, Ctx(enhanced_context),
                                                persona, TRUE)
        ELSE [branch |-> "development"]
             @@ generate_development_stage_snapshot(cache, thread_data, paths, recent_commits,
                                                    persona, Ctx(enhanced_context))

(***************************************************************************)
(* The template loader and the synthesizer as a process: one action per    *)
(* entry point, over the process-wide persona cache.                       *)
(***************************************************************************)
persona_vars == <<persona_cache, first_loaded, opened, call>>

\* A fresh process: template_loader has an empty cache, no file was opened.
PersonaIdle ==
    /\ persona_cache = << >>
    /\ first_loaded = << >>
    /\ opened = {}
    /\ call = [op |-> "none"]

\* The inputs the calls are made with.
ThreadInputs ==
    << [repo |-> "copidock"],
       [goal |-> "Fix login bug", repo |-> "copidock", branch |-> "main"],
       [goal |-> "Weekly report"] >>

CategoryInputs ==
    << {}, {"Infrastructure"}, {"Frontend", "Tests"}, {"Tests", "Other"},
       {"Backend/Lambda", "Tests"} >>

ResolveContexts ==
    << NoneCtx,
       Ctx([focus |-> "auth", output |-> "plan", constraints |-> "python only"]),
       Ctx([focus |-> "", output |-> "plan"]) >>

SynthContexts ==
    << NoneCtx,
       Ctx(<< >>),
       Ctx([stage |-> "initial", focus |-> "auth", output |-> "plan",
            constraints |-> "python only"]),
       Ctx([stage |-> "development", focus |-> "auth", domain |-> "nodomain"]),
       Ctx([stage |-> "Initial", domain |-> "pwa"]),
       Ctx([domain |-> "audit"]),
       Ctx([stage |-> "initial", domain |-> "pwa"]) >>

\* The lists of a cached persona that calls extend in place.
GrowingLists(cfg) ==
    <<Get(cfg, "guidelines_do", <<>>), Get(cfg, "risk_factors", <<>>)>>
    \o LET rules == Get(cfg, "template_rules", << >>)
           cats == SelectSeq(category_priority \o <<"default">>,
                             LAMBDA c : c \in DOMAIN rules /\ "task_list" \in DOMAIN rules[c])
       IN  [i \in 1..Len(cats) |->
               IF rules[cats[i]]["task_list"].kind = "list"
               THEN rules[cats[i]]["task_list"].items ELSE <<>>]

\* The bound of the exploration: no list of a cached persona grows beyond
\* MaxListLen items.
WithinBounds(cache) ==
    \A n \in DOMAIN cache :
        LET lists == GrowingLists(cache[n])
        IN  \A i \in 1..Len(lists) : Len(lists[i]) <= MaxListLen

\* What every call does to the cache, to the record of what each name held
\* when it was first loaded, and to the set of template files opened so far.
Commit(name, opens_file, cache) ==
    /\ persona_cache' = cache
    /\ first_loaded' = [n \in DOMAIN cache |->
                           IF n \in DOMAIN first_loaded THEN first_loaded[n] ELSE PersonaDocs[n]]
    /\ opened' = IF opens_file THEN opened \cup {name} ELSE opened

\* template_loader.load_persona(persona_name).
LoadPersona ==
    \E persona_name \in PersonaNames :
        LET r == load_persona(persona_cache, persona_name)
        IN  /\ WithinBounds(r.cache)
            /\ Commit(persona_name, r.opened, r.cache)
            /\ call' = [op |-> "load", persona |-> persona_name, raised |-> r.raised,
                        msg |-> r.msg, hit |-> persona_name \in DOMAIN persona_cache,
                        opened |-> r.opened,
                        reopened |-> r.opened /\ persona_name \in opened]

\* Calls that differ only in inputs the call never reads are made once.
ResolveInputs(persona_name, t, c, x) ==
    /\ persona_name \notin DOMAIN PersonaDocs => t = 1 /\ c = 1 /\ x = 1
    /\ (persona_name \in DOMAIN PersonaDocs
        /\ "template_rules" \notin DOMAIN PersonaDocs[persona_name]) => c = 1

\* template_loader.resolve_template_vars(persona_name, thread_data,
\* file_categories, enhanced_context): the load, then the resolution on the
\* cached object.
ResolveTemplateVars ==
    \E persona_name \in PersonaNames, t \in 1..Len(ThreadInputs),
       c \in 1..Len(CategoryInputs), x \in 1..Len(ResolveContexts) :
        /\ ResolveInputs(persona_name, t, c, x)
        /\ LET loaded == load_persona(persona_cache, persona_name)
               shape == [op |-> "resolve", persona |-> persona_name,
                         thread_data |-> ThreadInputs[t],
                         file_categories |-> CategoryInputs[c],
                         ctx |-> ResolveContexts[x],
                         hit |-> persona_name \in DOMAIN persona_cache,
                         opened |-> loaded.opened,
                         reopened |-> loaded.opened /\ persona_name \in opened]
           IN  IF loaded.raised
               THEN /\ WithinBounds(loaded.cache)
                    /\ Commit(persona_name, loaded.opened, loaded.cache)
                    /\ call' = shape @@ [raised |-> TRUE, msg |-> loaded.msg, tv |-> << >>]
               ELSE LET r == resolve_template_vars(loaded.cache[persona_name], ThreadInputs[t],
                                                   CategoryInputs[c], ResolveContexts[x])
                        after == [loaded.cache EXCEPT ![persona_name] = r.cfg]
                    IN  /\ WithinBounds(after)
                        /\ Commit(persona_name, loaded.opened, after)
                        /\ call' = shape @@ [raised |-> r.raised, msg |-> r.msg,
                                             tv |-> [k \in DOMAIN r.tv |-> r.tv[k].val]]

SynthInputs(persona, i) == persona \notin DOMAIN PersonaDocs => i = 1

\* generate_comprehensive_snapshot(thread_data, file_paths, recent_commits,
\* repo_root, persona, enhanced_context).
GenerateComprehensiveSnapshot ==
    \E persona \in PersonaNames, i \in 1..Len(ScanInputs), x \in 1..Len(SynthContexts) :
        /\ SynthInputs(persona, i)
        /\ \E r \in {generate_comprehensive_snapshot(
                        persona_cache, ThreadInputs[2], ScanInputs[i].paths,
                        ScanInputs[i].commits, persona, SynthContexts[x])} :
               /\ WithinBounds(r.cache)
               /\ Commit(persona, r.opened, r.cache)
               /\ call' = [op |-> "comprehensive", persona |-> persona,
                           scan |-> i, ctx |-> SynthContexts[x],
                           branch |-> r.branch, raised |-> r.raised, msg |-> r.msg,
                           sections |-> r.sections,
                           hit |-> persona \in DOMAIN persona_cache,
                           opened |-> r.opened,
                           reopened |-> r.opened /\ persona \in opened]

(***************************************************************************)
(* The development-context analyzer as a call on a scan's result.          *)
(***************************************************************************)
\* The file lists the analyzer is called with: up to two of eight paths, one
\* of each type and two of type "other", in every order, and lists of 3, 6
\* and 11 files.
AnalysisPaths ==
    { "api/users.py", "ui/App.tsx", "db/schema.sql", "tests/test_a.py", "settings.py",
      "README.md", "main.py", "rebuild.py" }
AnalysisPathLists ==
    {q \in UNION {[1..n -> AnalysisPaths] : n \in 0..2} : Cardinality(Range(q)) = Len(q)}
        \cup { <<"api/users.py", "main.py", "rebuild.py">>,
               [i \in 1..6 |-> "src/m" \o IntStr(i) \o ".py"],
               [i \in 1..11 |-> "src/m" \o IntStr(i) \o ".py"] }

\* analyze_development_context(file_paths, recent_commits, repo_root) on the
\* commits get_recent_commits gave, called once.
AnalyzeDevelopmentContext ==
    \E paths \in AnalysisPathLists, log \in 1..Len(LogOutputs) :
        /\ call.op = "none"
        /\ \E dev_context \in {analyze_development_context(paths, RecentCommitsOf[log])} :
               call' = [ op |-> "analyze", paths |-> paths, log |-> log,
                         recent_commits |-> RecentCommitsOf[log],
                         work_area |-> dev_context.work_area,
                         change_impact |-> dev_context.change_impact,
                         patterns |-> dev_context.file_analysis.patterns,
                         urgency |-> dev_context.commit_analysis.urgency,
                         commit_analysis |-> dev_context.commit_analysis ]
        /\ UNCHANGED <<persona_cache, first_loaded, opened>>

(***************************************************************************)
(* PRD creation (copidock prd create), from the writing of the file on.    *)
(***************************************************************************)
\* The number of times the command is run in one working tree.
MaxPrdRuns == 2

\* datetime.utcnow() as strftime("%Y%m%d-%H%M%S") shows it, in time order.
PrdClock == <<"20250101-120000", "20250102-093000">>

PrdNames == {"New Project", "Pay/Flow_App", "Customer Portal for the Northern Region"}

\* project_name[:30].lower().replace(' ', '-').replace('/', '-').replace('_', '-').
project_slug(project_name) ==
    Replace(Replace(Replace(Lower(Prefix(project_name, 30)), " ", "-"), "/", "-"), "_", "-")

prd_filename(stamp, project_name) == stamp \o "-" \o project_slug(project_name) \o ".md"

\* prd_path.relative_to(repo_root).
prd_relative_path(filename) == "copidock/prds/" \o filename

\* create_prd_markdown: the head of the front matter and the title (the
\* sections of the synthesizer follow and do not matter here).
create_prd_markdown(thread_id, project_name, prd_id) ==
    "---\nprd_id: " \o prd_id \o "\nversion: v1\nproject_name: \"" \o project_name
    \o "\"\nthread_id: " \o thread_id \o "\n---\n\n# PRD: " \o project_name

\* What .copidock/state.json holds before the first run: nothing, or the
\* thread of an earlier command.
PrdStates == << << >>, [thread_id |-> "t-0001", goal |-> "Ship v2"] >>

\* The working tree and the terminal before the first run.
PrdFresh(state) ==
    [ op |-> "prd", pc |-> "idle", runs |-> 0, clock |-> 1, files |-> << >>, current |-> "",
      state |-> state, printed |-> <<>>, exit |-> "", api |-> "", uploaded |-> "" ]

\* client.hydrate_snapshot: the answer of the service, or what makes the
\* call raise (requests raises on a connection failure and on a timeout, the
\* client on a status other than 200, response.json() on a body that is not
\* JSON).
UploadOutcomes == {"ok", "connection_error", "timeout", "http_500", "bad_json"}

\* A plausible slip of the handler: the failure is raised again after the
\* warning, and the path is not printed.
report_upload_failure_reraise(c, e) ==
    [c EXCEPT !.pc = "aborted", !.exit = "error", !.uploaded = e,
              !.printed = @ \o <<"PRD saved locally but upload failed: " \o e>>]

\* except Exception as e: the warning and the local path; the command ends
\* normally.
report_upload_failure(c, e) ==
    [c EXCEPT !.pc = "done", !.exit = "ok", !.uploaded = e,
              !.printed = @ \o << "PRD saved locally but upload failed: " \o e,
                                  "Local file: " \o prd_relative_path(c.filename) >>]

\* prd_create up to the generated content: the state is loaded; without a
\* thread one is started through the API (resolve_api raises without a
\* configuration, start_thread on a failure, and the command ends there);
\* the names of the PRD are computed.
PrdCreateBegin ==
    \E project_name \in PrdNames, now \in 1..Len(PrdClock), s \in 1..Len(PrdStates),
       api \in {"configured", "none"}, started \in BOOLEAN :
        \E c \in {IF call.op = "none" THEN PrdFresh(PrdStates[s]) ELSE call} :
            /\ c.pc \in {"idle", "done", "aborted"}
            /\ c.runs < MaxPrdRuns
            /\ now >= c.clock
            /\ IF "thread_id" \notin DOMAIN c.state /\ (api = "none" \/ ~started)
               THEN call' = [c EXCEPT !.pc = "aborted", !.exit = "error", !.runs = @ + 1,
                                      !.clock = now, !.api = api, !.uploaded = "",
                                      !.printed = <<>>]
               ELSE LET state == IF "thread_id" \in DOMAIN c.state THEN c.state
                                 ELSE [thread_id |-> "t-0002", goal |-> "New Project"] @@ c.state
                        filename == prd_filename(PrdClock[now], project_name)
                    IN  call' = [ project_name |-> project_name, filename |-> filename,
                                  prd_content |->
                                      create_prd_markdown(state.thread_id, project_name,
                                                          "prd-" \o PrdClock[now]) ]
                                @@ [c EXCEPT !.pc = "write", !.exit = "", !.runs = @ + 1,
                                             !.clock = now, !.api = api, !.uploaded = "",
                                             !.printed = <<>>, !.state = state]
            /\ UNCHANGED <<persona_cache, first_loaded, opened>>

\* prd_path.write_text(prd_content).
PrdWriteFile ==
    /\ call.op = "prd" /\ call.pc = "write"
    /\ call' = [call EXCEPT !.pc = "link",
                            !.files = (prd_relative_path(call.filename) :> call.prd_content) @@ @]
    /\ UNCHANGED <<persona_cache, first_loaded, opened>>

\* The CURRENT link: an existing one is removed, the new one points at the
\* file.
PrdLinkCurrent ==
    /\ call.op = "prd" /\ call.pc = "link"
    /\ call' = [call EXCEPT !.pc = "save", !.current = call.filename]
    /\ UNCHANGED <<persona_cache, first_loaded, opened>>

\* state['active_prd'], ['prd_version'], ['goal'] and save_state.
PrdSaveState ==
    /\ call.op = "prd" /\ call.pc = "save"
    /\ call' = [call EXCEPT !.pc = "resolve",
                            !.state = [ active_prd |-> prd_relative_path(call.filename),
                                        prd_version |-> "v1",
                                        goal |-> call.project_name ] @@ @]
    /\ UNCHANGED <<persona_cache, first_loaded, opened>>

\* resolve_api and the client, outside the try: without a configuration
\* resolve_api prints its message and raises RuntimeError.
PrdResolveApi ==
    /\ call.op = "prd" /\ call.pc = "resolve"
    /\ IF call.api = "none"
       THEN call' = [call EXCEPT !.pc = "aborted", !.exit = "error",
                                 !.printed = @ \o <<"No API base configured. Set --api, "
                                                    \o "COPIDOCK_API, or ~/.copidock/config.toml">>]
       ELSE call' = [call EXCEPT !.pc = "upload"]
    /\ UNCHANGED <<persona_cache, first_loaded, opened>>

\* The upload inside the try, and what is printed after it.
PrdUpload ==
    \E outcome \in UploadOutcomes, s3_key \in {"rehydrations/initial/tools/a.md", "unknown"} :
        /\ call.op = "prd" /\ call.pc = "upload"
        /\ IF outcome = "ok"
           THEN call' = [call EXCEPT !.pc = "done", !.exit = "ok", !.uploaded = "ok",
                                     !.printed = @ \o << "PRD Created Successfully!",
                                                         "Saved to: "
                                                         \o prd_relative_path(call.filename),
                                                         "Linked as: copidock/prds/CURRENT",
                                                         "Uploaded to S3: " \o s3_key >>]
           ELSE call' = report_upload_failure(call, outcome)
        /\ UNCHANGED <<persona_cache, first_loaded, opened>>

(***************************************************************************)
(* Open-question miner (cli/synthesis/analysis.py, mine_open_questions).   *)
(***************************************************************************)
\* str.rstrip(".,;:").
RECURSIVE RStripPunctuation(_)
RStripPunctuation(text) ==
    IF text # "" /\ CharAt(text, Len(text)) \in {".", ",", ";", ":"}
    THEN RStripPunctuation(SubSeq(text, 1, Len(text) - 1)) ELSE text

\* The alternatives each pattern starts with, lower-cased (the search is
\* case-insensitive); "??" stands for \?{2,}.
patterns ==
    [ TODO     |-> {"todo", "@todo"},
      FIXME    |-> {"fixme", "@fixme"},
      QUESTION |-> {"question", "@question", "??"},
      TBD      |-> {"tbd", "@tbd"},
      HACK     |-> {"hack", "@hack"},
      XXX      |-> {"xxx", "@xxx"},
      NOTE     |-> {"note", "@note"},
      REVIEW   |-> {"review", "@review"} ]

\* The run of "?" from position i on ends here.
RECURSIVE EndOfQuestionMarks(_, _)
EndOfQuestionMarks(text, i) ==
    IF i < Len(text) /\ CharAt(text, i + 1) = "?" THEN EndOfQuestionMarks(text, i + 1) ELSE i

\* Where the leftmost match of the pattern's marker ends in text_lower; 0
\* when no alternative occurs.
marker_end(text_lower, markers) ==
    LET hits == {h \in {[at |-> FindFrom(text_lower, m, 1), len |-> Len(m), m |-> m] :
                            m \in markers} : h.at > 0}
    IN  IF hits = {} THEN 0
        ELSE LET first == CHOOSE h \in hits :
                              \A g \in hits : h.at < g.at \/ (h.at = g.at /\ h.len >= g.len)
                 last == first.at + first.len - 1
             IN  IF first.m = "??" THEN EndOfQuestionMarks(text_lower, last) ELSE last

\* re.findall(pattern, text, re.IGNORECASE) and the cleaning of each match,
\* for a text of at most 100 characters: after the marker, an optional colon
\* and white space, the group takes the rest of the text, so there is at
\* most one match; match.strip().rstrip(".,;:") is kept when longer than 5.
\* (A rest of fewer than 3 characters makes the pattern give back the colon
\* or the white space; what it then captures cleans to at most 5 characters
\* and is not kept either.)
clean_matches(text, ptype) ==
    LET after_marker(last) ==
            LET rest == SubSeq(text, last + 1, Len(text))
                no_colon == IF rest # "" /\ Head(rest) = ":" THEN Tail(rest) ELSE rest
                clean_match == RStripPunctuation(Strip(no_colon))
            IN  IF last > 0 /\ Len(clean_match) > 5 THEN <<clean_match>> ELSE <<>>
    IN  CHOOSE found \in {after_marker(last) :
                             last \in {marker_end(Lower(text), patterns[ptype])}} : TRUE

\* The files of the working tree the miner reads, as content.split("\n").
MineDisk ==
    [ a |-> << "# TODO: validate the email", "def get(): pass",
               "# FIXME: handle empty body", "# todo: retry on timeout",
               "x = 1  # ?? why is this here", "# Review: naming of x.",
               "# fixme todo: both at once" >>,
      b |-> << "-- FIXME: index is missing", "-- @todo add the rollback",
               "-- QUESTION: keep the view?", "-- note: see ticket 42",
               "-- HACK: cast to text ;", "-- TODO: ab" >>,
      c |-> << "TBD: owner of this page", "XXX remove before release",
               "NOTE: written by hand", "REVIEW: wording of step 2",
               "FIXME: broken link in toc", "FIXME: stale screenshot",
               "QUESTION: who owns the toc" >> ]

MinePath == [a |-> "api/users.py", b |-> "db/schema.sql", c |-> "docs/guide.md"]

\* The matches of the first n lines of one file for one pattern, in line
\* order: the cleaned match with the file, the line number and the stripped
\* line as context.
RECURSIVE file_questions(_, _, _)
file_questions(name, ptype, n) ==
    IF n = 0 THEN <<>>
    ELSE file_questions(name, ptype, n - 1)
         \o [k \in 1..Len(clean_matches(MineDisk[name][n], ptype)) |->
                [ text |-> clean_matches(MineDisk[name][n], ptype)[k],
                  file |-> MinePath[name], line |-> n,
                  context |-> Strip(MineDisk[name][n]) ]]

scan_file(name) ==
    LET of(ptype) == file_questions(name, ptype, Len(MineDisk[name]))
    IN  [ TODO |-> of("TODO"), FIXME |-> of("FIXME"), QUESTION |-> of("QUESTION"),
          TBD |-> of("TBD"), HACK |-> of("HACK"), XXX |-> of("XXX"),
          NOTE |-> of("NOTE"), REVIEW |-> of("REVIEW") ]

\* The matches of each file, computed once.
FileQuestions == [a |-> scan_file("a"), b |-> scan_file("b"), c |-> scan_file("c")]

\* The matches of one commit for one pattern, in "subject body".
commit_questions(commit, ptype) ==
    LET found == clean_matches(Get(commit, "subject", "") \o " " \o Get(commit, "body", ""),
                               ptype)
    IN  [k \in 1..Len(found) |->
            [ text |-> found[k],
              file |-> "Commit " \o Prefix(Get(commit, "hash", "unknown"), 8),
              line |-> 0, context |-> Get(commit, "subject", "No subject") ]]

\* questions_by_type[ptype] after the two scans: the files that exist, in
\* the order given, then the commits.
RECURSIVE collect_questions(_, _, _)
collect_questions(names, commits, ptype) ==
    IF names # <<>>
    THEN (IF Head(names) \in DOMAIN FileQuestions
          THEN FileQuestions[Head(names)][ptype] ELSE <<>>)
         \o collect_questions(Tail(names), commits, ptype)
    ELSE IF commits # <<>>
    THEN commit_questions(Head(commits), ptype)
         \o collect_questions(names, Tail(commits), ptype)
    ELSE <<>>

\* questions.sort(key=lambda x: x["file"]): a stable sort on the file.
RECURSIVE InsertByFile(_, _)
InsertByFile(sorted, q) ==
    IF sorted = <<>> THEN <<q>>
    ELSE IF StrLess(q.file, Head(sorted).file) THEN <<q>> \o sorted
    ELSE <<Head(sorted)>> \o InsertByFile(Tail(sorted), q)

RECURSIVE SortByFile(_)
SortByFile(questions) ==
    IF questions = <<>> THEN <<>>
    ELSE InsertByFile(SortByFile(SubSeq(questions, 1, Len(questions) - 1)),
                      questions[Len(questions)])

\* A plausible slip of the order: the order in which the patterns are
\* declared, TODO before FIXME.
priority_types_as_declared ==
    <<"TODO", "FIXME", "QUESTION", "TBD", "HACK", "XXX", "NOTE", "REVIEW">>

priority_types == <<"FIXME", "TODO", "QUESTION", "REVIEW", "HACK", "TBD", "XXX", "NOTE">>
total_limit == 12
type_cap == 4
file_limit == 15

Min(a, b) == IF a <= b THEN a ELSE b

\* A plausible slip of the numbering: the count before the increment.
question_lines_from_zero(q, question_count) ==
    << IntStr(question_count) \o ". **" \o q.text \o "**",
       "   - *" \o q.file \o ":" \o IntStr(q.line) \o "*", "" >>

\* The lines of one question, numbered question_count + 1 (the backquotes
\* around the context are left out).
question_lines(q, question_count) ==
    << IntStr(question_count + 1) \o ". **" \o q.text \o "**",
       "   - *" \o q.file \o ":" \o IntStr(q.line) \o "*" >>
    \o (IF q.context # q.text /\ Strip(q.context) # ""
        THEN <<"   - Context: " \o q.context>> ELSE <<>>)
    \o <<"">>

\* for q in questions[:type_limit], from the k-th question on: the lines
\* appended and the count after the loop.
RECURSIVE type_loop(_, _, _, _, _)
type_loop(questions, k, type_limit, output, question_count) ==
    IF k > Len(questions) \/ k > type_limit \/ question_count >= total_limit
    THEN [output |-> output, question_count |-> question_count]
    ELSE type_loop(questions, k + 1, type_limit,
                   output \o question_lines(questions[k], question_count),
                   question_count + 1)

\* for qtype in priority_types, from the t-th type on (the list of the type
\* and the state after its loop are computed once).
RECURSIVE priority_loop(_, _, _, _)
priority_loop(questions_by_type, t, output, question_count) ==
    IF t > Len(priority_types) THEN [output |-> output, question_count |-> question_count]
    ELSE CHOOSE r \in
           { IF questions # <<>> /\ question_count < total_limit
             THEN CHOOSE after \in
                    { priority_loop(questions_by_type, t + 1, done.output, done.question_count) :
                        done \in { type_loop(SortByFile(questions), 1,
                                             Min(type_cap, total_limit - question_count),
                                             output \o <<"### " \o priority_types[t] \o "s\n">>,
                                             question_count) } } : TRUE
             ELSE priority_loop(questions_by_type, t + 1, output, question_count)
             : questions \in {questions_by_type[priority_types[t]]} } : TRUE

RECURSIVE SumLen(_, _)
SumLen(questions_by_type, t) ==
    IF t = 0 THEN 0
    ELSE Len(questions_by_type[priority_types[t]]) + SumLen(questions_by_type, t - 1)

\* The output list joined, with the summary line when matches were left out.
render_questions(questions_by_type) ==
    IF \A t \in 1..Len(priority_types) : questions_by_type[priority_types[t]] = <<>>
    THEN "## Open Questions\n\nNo open questions found in recent changes."
    ELSE LET summary(done, total_questions) ==
                 IF total_questions > done.question_count
                 THEN <<"*... and " \o IntStr(total_questions - done.question_count)
                        \o " more questions found*">>
                 ELSE <<>>
         IN  CHOOSE text \in
               { JoinLines(output) :
                   output \in
                     { done.output \o summary(done, SumLen(questions_by_type,
                                                           Len(priority_types))) :
                         done \in { priority_loop(questions_by_type, 1,
                                                  <<"## Open Questions\n">>, 0) } } } : TRUE

\* mine_open_questions: the first file_limit paths and the commits are
\* scanned, then the matches are rendered.
mine_open_questions(names, recent_commits) ==
    LET scanned == SubSeq(names, 1, Min(file_limit, Len(names)))
        of(ptype) == collect_questions(scanned, recent_commits, ptype)
    IN  CHOOSE text \in
          { render_questions(questions_by_type) :
              questions_by_type \in
                { [ TODO |-> of("TODO"), FIXME |-> of("FIXME"), QUESTION |-> of("QUESTION"),
                    TBD |-> of("TBD"), HACK |-> of("HACK"), XXX |-> of("XXX"),
                    NOTE |-> of("NOTE"), REVIEW |-> of("REVIEW") ] } } : TRUE

\* The file lists and the commits the miner is called with: every order of
\* every choice among three files and a path that does not exist, and a
\* list of sixteen paths whose last is the only one with markers.
MineNames == {"a", "b", "c", "gone"}
MineFileLists ==
    {q \in UNION {[1..n -> MineNames] : n \in 0..3} : Cardinality(Range(q)) = Len(q)}
        \cup {[i \in 1..(file_limit + 1) |-> IF i <= file_limit THEN "gone" ELSE "a"]}
MineCommits ==
    << <<>>,
       << [hash |-> "a1b2c3d4e5f6", subject |-> "fix login ?? is the cache needed", body |-> ""] >>,
       << [hash |-> "a1b2c3d4e5f6", subject |-> "fix login ?? is the cache needed", body |-> ""],
          [hash |-> "0f9e8d7", subject |-> "TODO: split the handler",
           body |-> "FIXME: flaky test in ci."] >> >>

\* mine_open_questions(file_paths, repo_root, recent_commits), called once.
MineOpenQuestions ==
    \E names \in MineFileLists, c \in 1..Len(MineCommits) :
        /\ call.op = "none"
        /\ call' = [ op |-> "mine", names |-> names, commits |-> c,
                     output |-> mine_open_questions(names, MineCommits[c]) ]
        /\ UNCHANGED <<persona_cache, first_loaded, opened>>

(***************************************************************************)
(* Snapshot store: the handlers of lambdas/ over the threads table and the *)
(* object store.                                                           *)
(***************************************************************************)
store_vars == <<threads, bucket, reqs, minted>>

\* The code point of each character of Ascii.
AsciiCode ==
    <<32, 33, 35, 36, 37, 38, 39, 40, 41, 42, 43, 44, 45, 46, 47, 48,
      49, 50, 51, 52, 53, 54, 55, 56, 57, 58, 59, 60, 61, 62, 63, 64,
      65, 66, 67, 68, 69, 70, 71, 72, 73, 74, 75, 76, 77, 78, 79, 80,
      81, 82, 83, 84, 85, 86, 87, 88, 89, 90, 91, 93, 94, 95, 97, 98,
      99, 100, 101, 102, 103, 104, 105, 106, 107, 108, 109, 110, 111,
      112, 113, 114, 115, 116, 117, 118, 119, 120, 121, 122, 123, 124,
      125, 126>>

\* str.encode("utf-8") and bytes.decode("utf-8") on such text: one byte per
\* character, its code point.
encode_utf8(text) == [i \in 1..Len(text) |-> AsciiCode[CharRank(CharAt(text, i))]]
RECURSIVE decode_utf8(_)
decode_utf8(bytes) ==
    IF bytes = <<>> THEN ""
    ELSE CharAt(Ascii, CHOOSE k \in 1..Len(AsciiCode) : AsciiCode[k] = Head(bytes))
         \o decode_utf8(Tail(bytes))

\* f"{version:03d}".
Pad3(n) == (IF n < 10 THEN "00" ELSE IF n < 100 THEN "0" ELSE "") \o IntStr(n)

\* str(uuid.uuid4()): the n-th thread id and the n-th rehydration id; an id
\* that no call gave.
ThreadUuid(n) == "7d1c4a0" \o IntStr(n) \o "-5b6e-4f3a-9c2d-1e0f3a4b5c6d"
RehydrationUuid(n) == "c0ffee0" \o IntStr(n) \o "-1a2b-4c3d-8e4f-5a6b7c8d9e0f"
StrangerUuid == "00000000-0000-4000-8000-000000000000"

\* datetime.utcnow(), as strftime("%Y%m%d-%H%M%S") shows it.
Clock == {"20250101-120000"}
\* strftime("%Y-%m-%d") of the same instant.
DateStr(stamp) == SubSeq(stamp, 1, 4) \o "-" \o SubSeq(stamp, 5, 6) \o "-" \o SubSeq(stamp, 7, 8)

\* A fresh deployment: no thread, no object, no request.
NoRequest == [kind |-> "none", pc |-> "idle"]
StoreIdle ==
    /\ threads = << >>
    /\ bucket = << >>
    /\ reqs = [r \in 1..MaxRequests |-> NoRequest]
    /\ minted = [thread |-> 0, rehydration |-> 0]

\* Table.put_item / Table.update_item SET: the item with the attributes set,
\* created when there is none.
set_attributes(table, thread_id, attrs) ==
    LET item == Get(table, thread_id, << >>)
    IN  (thread_id :> (attrs @@ item)) @@ table

\* A plausible slip of the counter update: SET where the code says ADD.
add_attribute_as_set(table, thread_id, attr, inc) ==
    set_attributes(table, thread_id, attr :> inc)

\* Table.update_item ADD attr :inc: one atomic read-modify-write; a missing
\* attribute counts as 0.
add_attribute(table, thread_id, attr, inc) ==
    set_attributes(table, thread_id,
                   attr :> (Get(Get(table, thread_id, << >>), attr, 0) + inc))

\* s3.put_object.
put_object(objects, key, body, metadata) ==
    (key :> [Body |-> body, Metadata |-> metadata]) @@ objects

\* The next request to arrive takes the first free place.
Arrives(r) ==
    /\ reqs[r].pc = "idle"
    /\ \A q \in 1..(r - 1) : reqs[q].pc # "idle"

Respond(r, status, body) ==
    reqs' = [reqs EXCEPT ![r] = [@ EXCEPT !.pc = "done"] @@ [status |-> status, body |-> body]]

\* The thread ids a client may send: none, one it was given, one nobody gave.
ThreadIdInputs == {""} \cup DOMAIN threads \cup {StrangerUuid}

\* thread_name: the characters of goal[:50] that are alphanumeric, space,
\* "-" or "_", stripped.
RECURSIVE SafeChars(_)
SafeChars(text) ==
    IF text = "" THEN ""
    ELSE (IF Head(text) \in DOMAIN UpperOf \/ Head(text) \in DOMAIN LowerOf
             \/ Head(text) \in Range(Digits) \/ Head(text) \in {" ", "-", "_"}
          THEN Head(text) ELSE "")
         \o SafeChars(Tail(text))

StartInputs == << [goal |-> ""], [goal |-> " Ship v2! ", repo |-> "Droshow/Copidock.git"] >>

\* POST /thread/start (thread_start_handler.handler): 400 without a goal;
\* otherwise a new thread item with snapshot_count 0.
ThreadStart ==
    \E b \in 1..Len(StartInputs), now \in Clock :
        LET body == StartInputs[b]
            goal == Strip(Get(body, "goal", ""))
            thread_id == ThreadUuid(minted.thread + 1)
            safe == Strip(SafeChars(SubSeq(goal, 1, IF Len(goal) < 50 THEN Len(goal) ELSE 50)))
            thread_name == IF safe # "" THEN safe ELSE "thread-" \o SubSeq(now, 1, 13)
        IN  IF goal = ""
            THEN UNCHANGED store_vars
            ELSE /\ minted.thread < MaxThreads
                 /\ minted' = [minted EXCEPT !.thread = @ + 1]
                 /\ threads' = set_attributes(threads, thread_id,
                                   [ thread_id |-> thread_id, thread_name |-> thread_name,
                                     goal |-> goal, repo |-> Strip(Get(body, "repo", "")),
                                     branch |-> Strip(Get(body, "branch", "main")),
                                     status |-> "active", snapshot_count |-> 0 ])
                 /\ UNCHANGED <<bucket, reqs>>

\* The head of the markdown both snapshot kinds write.
snapshot_markdown(thread_name, version) ==
    "# Rehydrate: " \o thread_name \o " (v" \o IntStr(version) \o ")"

SnapshotKinds == {"regular", "comprehensive"}

\* event['body'] as the gateway hands it over: a JSON object, or None when
\* the request was sent without a body.
EventBodies == {"object", "null"}

\* POST /snapshot and POST /snapshot/comprehensive, up to the read of the
\* thread: json.loads(event.get('body', '{}')) raises TypeError on a body
\* of None, which the handler's last except clause answers with 500; 400
\* without a thread_id, 404 when the table has no such item.
SnapshotBegin ==
    \E r \in 1..MaxRequests, kind \in SnapshotKinds, event_body \in EventBodies,
       id_in \in ThreadIdInputs, now \in Clock :
        LET thread_id == IF event_body = "null" THEN "" ELSE Strip(id_in)
            arrived == [kind |-> kind, pc |-> "idle", thread_id |-> thread_id, version |-> 0]
        IN  /\ Arrives(r)
            /\ UNCHANGED <<threads, bucket, minted>>
            /\ IF event_body = "null"
               THEN reqs' = [reqs EXCEPT ![r] =
                               [arrived EXCEPT !.pc = "done"]
                               @@ [status |-> 500, body |-> [error |-> "Internal server error"]]]
               ELSE IF thread_id = ""
               THEN reqs' = [reqs EXCEPT ![r] =
                               [arrived EXCEPT !.pc = "done"]
                               @@ [status |-> 400, body |-> [error |-> "thread_id is required"]]]
               ELSE IF thread_id \notin DOMAIN threads
               THEN reqs' = [reqs EXCEPT ![r] =
                               [arrived EXCEPT !.pc = "done"]
                               @@ [status |-> 404, body |-> [error |-> "Thread not found"]]]
               ELSE reqs' = [reqs EXCEPT ![r] =
                               [arrived EXCEPT !.pc = "increment"]
                               @@ [ thread_name |-> Get(threads[thread_id], "thread_name",
                                                        "Development Thread"),
                                    date_str |-> DateStr(now) ]]

\* The counter update: ADD snapshot_count 1 with ReturnValues ALL_NEW, the
\* version being the count the update returns; a failing update answers 500.
SnapshotIncrement ==
    \E r \in 1..MaxRequests, fails \in BOOLEAN :
        /\ reqs[r].pc = "increment"
        /\ UNCHANGED <<bucket, minted>>
        /\ IF fails
           THEN /\ UNCHANGED threads
                /\ Respond(r, 500, [error |-> "Failed to create snapshot version"])
           ELSE LET updated == add_attribute(threads, reqs[r].thread_id, "snapshot_count", 1)
                    version == updated[reqs[r].thread_id]["snapshot_count"]
                    name == IF reqs[r].kind = "regular" THEN "snapshot" ELSE "comprehensive"
                IN  /\ threads' = updated
                    /\ reqs' = [reqs EXCEPT ![r] =
                                   [@ EXCEPT !.pc = "put", !.version = version]
                                   @@ [s3_key |-> "threads/" \o reqs[r].thread_id \o "/"
                                                  \o reqs[r].date_str \o "/" \o name \o "-v"
                                                  \o Pad3(version) \o ".md"]]

\* The write of the snapshot object; a failing write answers 500.
SnapshotPut ==
    \E r \in 1..MaxRequests, fails \in BOOLEAN :
        /\ reqs[r].pc = "put"
        /\ UNCHANGED <<threads, minted>>
        /\ IF fails
           THEN /\ UNCHANGED bucket
                /\ Respond(r, 500, [error |-> "Internal server error"])
           ELSE /\ bucket' = put_object(bucket, reqs[r].s3_key,
                                 encode_utf8(snapshot_markdown(reqs[r].thread_name,
                                                               reqs[r].version)),
                                 ("thread-id" :> reqs[r].thread_id)
                                 @@ [ version |-> IntStr(reqs[r].version),
                                      type |-> reqs[r].kind ])
                /\ reqs' = [reqs EXCEPT ![r].pc = "latest"]

\* The update of the thread's latest_snapshot_key, and the answer.
SnapshotSetLatest ==
    \E r \in 1..MaxRequests :
        /\ reqs[r].pc = "latest"
        /\ threads' = set_attributes(threads, reqs[r].thread_id,
                                     "latest_snapshot_key" :> reqs[r].s3_key)
        /\ Respond(r, 200, [ thread_id |-> reqs[r].thread_id, version |-> reqs[r].version,
                             s3_key |-> reqs[r].s3_key, type |-> reqs[r].kind ])
        /\ UNCHANGED <<bucket, minted>>

\* hydrate_handler._stage and _clean_repo (None is the empty string here:
\* both are falsy; no name of the model holds a backslash, the third
\* character _clean_repo replaces).
clean_stage(text) ==
    LET t == Lower(Strip(text))
    IN  IF t \in {"initial", "development"} THEN t ELSE "development"

clean_repo(name) ==
    IF name = "" THEN "current-project"
    ELSE LET cleaned == Replace(Replace(Replace(Lower(Strip(name)), ".git", ""),
                                        "/", "-"), " ", "-")
         IN  IF cleaned # "" THEN cleaned ELSE "current-project"

\* The length of the id prefix a rehydration key carries.
ShortIdLen == 8

\* hydrate_handler._s3_key.
rehydration_key(stage, repo, stamp, rehyd_id) ==
    "rehydrations/" \o stage \o "/" \o repo \o "/" \o stamp \o "-comprehensive-"
    \o SubSeq(rehyd_id, 1, ShortIdLen) \o ".md"

HydrateBodies ==
    << << >>,
       [markdown_content |-> "  "],
       [markdown_content |-> "# Notes"],
       [markdown_content |-> "# Plan: v2",
        metadata |-> [stage |-> " Initial", repo |-> "Team/Tools.git"]] >>

\* a or b, on strings.
Or(a, b) == IF a # "" THEN a ELSE b

\* POST /snapshots/{thread_id}/hydrate (the handler the module ends up
\* with), up to the checks: 400 without a thread_id or without content.
HydrateBegin ==
    \E r \in 1..MaxRequests, id_in \in ThreadIdInputs, b \in 1..Len(HydrateBodies) :
        LET body == HydrateBodies[b]
            thread_id == Strip(id_in)
            t == Get(threads, thread_id, << >>)
            meta == Get(body, "metadata", << >>)
            md == Get(body, "markdown_content", "")
            arrived == [kind |-> "hydrate", pc |-> "idle", thread_id |-> thread_id]
        IN  /\ Arrives(r)
            /\ UNCHANGED <<threads, bucket, minted>>
            /\ IF thread_id = ""
               THEN reqs' = [reqs EXCEPT ![r] =
                               [arrived EXCEPT !.pc = "done"]
                               @@ [status |-> 400, body |-> [error |-> "thread_id is required"]]]
               ELSE IF Strip(md) = ""
               THEN reqs' = [reqs EXCEPT ![r] =
                               [arrived EXCEPT !.pc = "done"]
                               @@ [status |-> 400,
                                   body |-> [error |-> "markdown_content is required"]]]
               ELSE reqs' = [reqs EXCEPT ![r] =
                               [arrived EXCEPT !.pc = "put"]
                               @@ [ md |-> md,
                                    stage |-> clean_stage(Or(Get(meta, "stage", ""),
                                                             Get(t, "stage", ""))),
                                    repo |-> clean_repo(Or(Get(meta, "repo", ""),
                                                           Get(t, "repo", ""))) ]]

\* The new rehydration id, the key, and the write of the object.
HydratePut ==
    \E r \in 1..MaxRequests, now \in Clock :
        LET rehyd_id == RehydrationUuid(minted.rehydration + 1)
            key == rehydration_key(reqs[r].stage, reqs[r].repo, now, rehyd_id)
        IN  /\ reqs[r].kind = "hydrate"
            /\ reqs[r].pc = "put"
            /\ minted' = [minted EXCEPT !.rehydration = @ + 1]
            /\ bucket' = put_object(bucket, key, encode_utf8(reqs[r].md),
                                    ("thread-id" :> reqs[r].thread_id)
                                    @@ ("rehydration-id" :> rehyd_id)
                                    @@ [stage |-> reqs[r].stage, repo |-> reqs[r].repo])
            /\ reqs' = [reqs EXCEPT ![r] =
                           [@ EXCEPT !.pc = "update"]
                           @@ [rehydration_id |-> rehyd_id, s3_key |-> key]]
            /\ UNCHANGED threads

\* The update of the thread item (created when there is none), and the
\* answer with the rehydration id.
HydrateUpdate ==
    \E r \in 1..MaxRequests :
        /\ reqs[r].kind = "hydrate"
        /\ reqs[r].pc = "update"
        /\ threads' = set_attributes(threads, reqs[r].thread_id,
                          [ latest_snapshot_key |-> reqs[r].s3_key,
                            stage |-> reqs[r].stage, repo |-> reqs[r].repo ])
        /\ Respond(r, 200, [ rehydration_id |-> reqs[r].rehydration_id,
                             thread_id |-> reqs[r].thread_id,
                             s3_key |-> reqs[r].s3_key,
                             stage |-> reqs[r].stage, repo |-> reqs[r].repo ])
        /\ UNCHANGED <<bucket, minted>>

\* The rehydration ids the hydrate handler has answered with so far.
AnsweredIds ==
    {reqs[q].rehydration_id : q \in {q \in 1..MaxRequests :
        reqs[q].kind = "hydrate" /\ reqs[q].pc = "done" /\ reqs[q].status = 200}}

\* s3.list_objects_v2(Prefix=...): the keys under the prefix, in key order.
list_objects_v2(objects, prefix) ==
    SortedStrings({k \in DOMAIN objects : StartsWith(k, prefix)})

\* GET /snapshots/rehydrate/{rehydration_id} (handle_rehydrate_by_id): 400
\* without an id; the first listed key that contains the id, 404 when none
\* does; otherwise the object's content.
RehydrateById ==
    \E r \in 1..MaxRequests, id_in \in {"", StrangerUuid} \cup AnsweredIds :
        LET rehydration_id == Strip(id_in)
            listed == list_objects_v2(bucket, "rehydrations/")
            matching == SelectSeq(listed, LAMBDA k : Contains(k, rehydration_id))
            arrived == [kind |-> "rehydrate", pc |-> "done", rehydration_id |-> rehydration_id,
                        answered |-> rehydration_id \in AnsweredIds]
        IN  /\ Arrives(r)
            /\ UNCHANGED <<threads, bucket, minted>>
            /\ IF rehydration_id = ""
               THEN reqs' = [reqs EXCEPT ![r] = arrived @@
                               [status |-> 400,
                                body |-> [error |-> "rehydration_id parameter is required"]]]
               ELSE IF matching = <<>>
               THEN reqs' = [reqs EXCEPT ![r] = arrived @@
                               [status |-> 404, body |-> [error |-> "Rehydration not found"]]]
               ELSE reqs' = [reqs EXCEPT ![r] = arrived @@
                               [status |-> 200,
                                body |-> [ rehydration_id |-> rehydration_id,
                                           thread_id |-> Get(bucket[Head(matching)].Metadata,
                                                             "thread-id", ""),
                                           markdown_content |->
                                               decode_utf8(bucket[Head(matching)].Body) ]]]

(***************************************************************************)
(* Specifications.                                                         *)
(***************************************************************************)
\* enforce_budget on every candidate list and budget within the bounds.
BudgetSpecInit == BudgetInit /\ ScanIdle /\ PersonaIdle /\ StoreIdle
BudgetNext == EnforceBudget /\ UNCHANGED <<scan, persona_vars, store_vars>>
SpecBudget == BudgetSpecInit /\ [][BudgetNext]_vars

\* gather_comprehensive in every state of git and the index.
ScanSpecInit == BudgetIdle /\ ScanIdle /\ PersonaIdle /\ StoreIdle
ScanNext == GatherComprehensive /\ UNCHANGED <<budget_vars, persona_vars, store_vars>>
SpecScan == ScanSpecInit /\ [][ScanNext]_vars

\* Any sequence of load_persona and resolve_template_vars calls in one
\* process.
PersonaSpecInit == BudgetIdle /\ ScanIdle /\ PersonaIdle /\ StoreIdle
PersonaNext ==
    \/ LoadPersona /\ UNCHANGED <<budget_vars, scan, store_vars>>
    \/ ResolveTemplateVars /\ UNCHANGED <<budget_vars, scan, store_vars>>
SpecPersona == PersonaSpecInit /\ [][PersonaNext]_vars

\* Any sequence of generate_comprehensive_snapshot calls in one process.
SynthSpecInit == BudgetIdle /\ ScanIdle /\ PersonaIdle /\ StoreIdle
SynthNext == GenerateComprehensiveSnapshot /\ UNCHANGED <<budget_vars, scan, store_vars>>
SpecSynth == SynthSpecInit /\ [][SynthNext]_vars

\* Thread starts and concurrent snapshot requests: the handlers interleave
\* at their calls to the table and to the object store.
SnapshotSpecInit == BudgetIdle /\ ScanIdle /\ PersonaIdle /\ StoreIdle
SnapshotNext ==
    \/ ThreadStart /\ UNCHANGED <<budget_vars, scan, persona_vars>>
    \/ SnapshotBegin /\ UNCHANGED <<budget_vars, scan, persona_vars>>
    \/ SnapshotIncrement /\ UNCHANGED <<budget_vars, scan, persona_vars>>
    \/ SnapshotPut /\ UNCHANGED <<budget_vars, scan, persona_vars>>
    \/ SnapshotSetLatest /\ UNCHANGED <<budget_vars, scan, persona_vars>>
SpecSnapshot == SnapshotSpecInit /\ [][SnapshotNext]_vars

\* Thread starts, hydrate requests and rehydrate-by-id requests.
HydrateSpecInit == BudgetIdle /\ ScanIdle /\ PersonaIdle /\ StoreIdle
HydrateNext ==
    \/ ThreadStart /\ UNCHANGED <<budget_vars, scan, persona_vars>>
    \/ HydrateBegin /\ UNCHANGED <<budget_vars, scan, persona_vars>>
    \/ HydratePut /\ UNCHANGED <<budget_vars, scan, persona_vars>>
    \/ HydrateUpdate /\ UNCHANGED <<budget_vars, scan, persona_vars>>
    \/ RehydrateById /\ UNCHANGED <<budget_vars, scan, persona_vars>>
SpecHydrate == HydrateSpecInit /\ [][HydrateNext]_vars

\* Runs of prd create in one working tree.
PrdSpecInit == BudgetIdle /\ ScanIdle /\ PersonaIdle /\ StoreIdle
PrdNext ==
    \/ PrdCreateBegin /\ UNCHANGED <<budget_vars, scan, store_vars>>
    \/ PrdWriteFile /\ UNCHANGED <<budget_vars, scan, store_vars>>
    \/ PrdLinkCurrent /\ UNCHANGED <<budget_vars, scan, store_vars>>
    \/ PrdSaveState /\ UNCHANGED <<budget_vars, scan, store_vars>>
    \/ PrdResolveApi /\ UNCHANGED <<budget_vars, scan, store_vars>>
    \/ PrdUpload /\ UNCHANGED <<budget_vars, scan, store_vars>>
SpecPrd == PrdSpecInit /\ [][PrdNext]_vars

\* Calls of the open-question miner.
MineSpecInit == BudgetIdle /\ ScanIdle /\ PersonaIdle /\ StoreIdle
MineNext == MineOpenQuestions /\ UNCHANGED <<budget_vars, scan, store_vars>>
SpecMine == MineSpecInit /\ [][MineNext]_vars

\* Calls of the development-context analyzer.
\* The commits analyze_single_commit is called with: subjects with no
\* keyword, with keywords of one type and of several, in either case, and
\* bodies with and without keywords.
CommitSubjects ==
    { "wip", "Release 1.2", "Fix login bug", "add test for config",
      "Improve docs coverage", "update README and setup", "setup env",
      "spec for the parser", "Document the deploy step", "cleanup after tests",
      "resolve merge conflict", "bump build number" }
CommitBodies == {"", "fix the bug", "Add a feature and a test", "docs and config only"}

\* analysis = analyze_single_commit(commit_data), for one commit.
AnalyzeSingleCommit ==
    \E subject \in CommitSubjects, body \in CommitBodies :
        /\ call.op = "none"
        /\ \E commit \in {[hash |-> "a1b2c3d4e5", subject |-> subject, body |-> body]} :
               call' = [ op |-> "commit", commit |-> commit,
                         analysis |-> analyze_single_commit(commit) ]
        /\ UNCHANGED <<persona_cache, first_loaded, opened>>

AnalysisSpecInit == BudgetIdle /\ ScanIdle /\ PersonaIdle /\ StoreIdle
AnalysisNext ==
    \/ AnalyzeDevelopmentContext /\ UNCHANGED <<budget_vars, scan, store_vars>>
    \/ AnalyzeSingleCommit /\ UNCHANGED <<budget_vars, scan, store_vars>>
SpecAnalysis == AnalysisSpecInit /\ [][AnalysisNext]_vars

(***************************************************************************)
(* Claims.                                                                 *)
(***************************************************************************)
\* C5: version-control tolerance: whatever state git is in (not a repository,
\* unavailable, a non-zero exit, a timeout), gather_comprehensive returns and
\* never raises.
C5_GatherNeverRaises == scan.pc = "done" => ~scan.raised

RECURSIVE SumEstimates(_, _)
SumEstimates(fp, idx) ==
    IF idx = <<>> THEN 0
    ELSE get_file_size_estimate(fp[Head(idx)]) + SumEstimates(fp, Tail(idx))

\* C1: the estimated token costs (byte size // 4) of the files the budget
\* step returns sum to at most the budget it was given.
C1_BudgetInvariant ==
    budget_pc = "done" => SumEstimates(file_paths, filtered_paths) <= max_tokens

\* C1 witness: a call that accepted two files with a positive total and
\* rejected a third.
C1_Witness ==
    /\ budget_pc = "done"
    /\ Len(filtered_paths) = 2
    /\ Len(file_paths) = 3
    /\ SumEstimates(file_paths, filtered_paths) = max_tokens
    /\ max_tokens > 0

FourSections == {"operator_instructions", "current_state", "decisions_constraints",
                 "open_questions"}

\* C2: the configuration the persona cache holds for a name has exactly the
\* content it had right after it was first loaded, after any sequence of
\* synthesis calls.
C2_PersonaImmutable ==
    \A n \in DOMAIN persona_cache : persona_cache[n] = first_loaded[n]

\* C6: in the Development branch, when the template named exactly {persona}
\* cannot be loaded, the call raises an error naming the persona and returns
\* no sections.
C6_DevelopmentFailFast ==
    (/\ call.op = "comprehensive"
     /\ call.branch = "development"
     /\ call.persona \notin DOMAIN PersonaDocs)
    => /\ call.raised
       /\ call.msg = "Missing required template file: " \o call.persona
       /\ DOMAIN call.sections = {}

C6_Witness ==
    /\ call.op = "comprehensive"
    /\ call.branch = "development"
    /\ call.persona \in PersonaInvalid
    /\ call.raised
    /\ "dev" \in DOMAIN persona_cache

\* The names of the hint sections the Development branch merges for a
\* context: those of its domain's synthesis hints, none without a domain.
HintSections(ctx) ==
    LET domain == Get(OrEmpty(ctx), "domain", "")
    IN  IF domain = "" THEN {} ELSE DOMAIN get_domain_synthesis_hints(domain)

\* C7, as stated: whenever generate_comprehensive_snapshot returns, the map
\* has exactly the four section keys, each a string, domain hints or not.
C7_ExactlyFourSections ==
    (call.op = "comprehensive" /\ ~call.raised)
    => /\ DOMAIN call.sections = FourSections
       /\ \A k \in DOMAIN call.sections : call.sections[k].kind = "str"

\* C7, amended: whenever generate_comprehensive_snapshot returns, the map
\* holds the four section keys and, in the Development branch with a domain,
\* one more key for every hint section that is none of the four; every value
\* is a string.  The Initial branch returns exactly the four.
C7_FourSectionsAndHintSections ==
    (call.op = "comprehensive" /\ ~call.raised)
    => /\ DOMAIN call.sections =
            FourSections \cup (IF call.branch = "development"
                               THEN HintSections(call.ctx) ELSE {})
       /\ \A k \in DOMAIN call.sections : call.sections[k].kind = "str"

C7_Witness ==
    /\ call.op = "comprehensive"
    /\ ~call.raised
    /\ call.branch = "development"
    /\ HintSections(call.ctx) \ FourSections # {}
    /\ HintSections(call.ctx) \cap FourSections # {}

\* C8: an invocation runs the Initial branch exactly when its own context's
\* stage equals "initial" (a missing key and a None context run the
\* Development branch), whatever branch the invocation before it ran.
C8_StageRouting ==
    [][call'.op = "comprehensive"
         => (call'.branch = "initial")
                = (Get(OrEmpty(call'.ctx), "stage", "development") = "initial")]_vars

\* An invocation took the Initial branch for the stage "initial" with a
\* persona whose cached lists had grown, which only an earlier invocation of
\* the Development branch with that persona does.
C8_Witness ==
    /\ call.op = "comprehensive"
    /\ ~call.raised
    /\ call.branch = "initial"
    /\ Get(OrEmpty(call.ctx), "stage", "development") = "initial"
    /\ call.persona \in DOMAIN persona_cache
    /\ persona_cache[call.persona] # first_loaded[call.persona]

\* C9, as stated: the backing template of a name is read at most once in the
\* lifetime of the process.
C9_ReadAtMostOnce == call.op = "load" => ~call.reopened

\* C9, amended: a load of a name that is in the cache opens no file and
\* leaves the cache as it is; a template that parses is opened at most once;
\* a load that fails (no file, or a file that does not parse, which is
\* opened again by every call) leaves the cache unchanged; a load never
\* touches the entry of another name.
C9_CacheReadThrough ==
    [][call'.op = "load" =>
         LET n == call'.persona
         IN  /\ n \in DOMAIN persona_cache
                  => ~call'.opened /\ ~call'.raised /\ persona_cache' = persona_cache
             /\ (n \in DOMAIN PersonaDocs /\ call'.opened) => n \notin opened
             /\ call'.raised => persona_cache' = persona_cache
             /\ ~call'.raised => n \in DOMAIN persona_cache'
             /\ \A m \in DOMAIN persona_cache \ {n} :
                    m \in DOMAIN persona_cache' /\ persona_cache'[m] = persona_cache[m]]_vars

C9_Witness ==
    /\ call.op = "load"
    /\ call.hit
    /\ ~call.opened
    /\ DOMAIN persona_cache = DOMAIN PersonaDocs
    /\ PersonaInvalid \subseteq opened

\* C10: when the CLI context gives a (non-empty) focus, output or constraints,
\* the returned primary_focus, expected_outputs or constraints is that value,
\* whatever the rule block and the goal modifiers set.
C10_OverridePrecedence ==
    (call.op = "resolve" /\ ~call.raised)
    => LET ctx == OrEmpty(call.ctx)
           wins(ck, vk) == Truthy(ctx, ck)
                             => vk \in DOMAIN call.tv /\ call.tv[vk] = Str(ctx[ck])
       IN  /\ wins("focus", "primary_focus")
           /\ wins("output", "expected_outputs")
           /\ wins("constraints", "constraints")

\* The call had a rule block and matching goal modifiers set all three
\* variables, and the context gave all three.
C10_Witness ==
    /\ call.op = "resolve"
    /\ ~call.raised
    /\ call.persona = "dev"
    /\ call.file_categories = {"Infrastructure"}
    /\ Contains(Lower(Get(call.thread_data, "goal", "")), "fix")
    /\ Truthy(OrEmpty(call.ctx), "focus")
    /\ Truthy(OrEmpty(call.ctx), "constraints")
    /\ call.tv["constraints"] = Str("python only")

\* The requests on a thread that are past the counter update.
Versioned(thread_id) ==
    {r \in 1..MaxRequests :
        /\ reqs[r].kind \in SnapshotKinds
        /\ reqs[r].thread_id = thread_id
        /\ reqs[r].version # 0}

\* C4: whatever the interleaving of the snapshot requests on a thread, no two
\* requests past the counter update hold the same version, and on a thread
\* created by thread start the versions handed out are exactly 1..n, n being
\* the number of increments (the thread's snapshot_count).
C4_VersionsUnique ==
    \A t \in DOMAIN threads :
        /\ \A r1, r2 \in Versioned(t) : r1 # r2 => reqs[r1].version # reqs[r2].version
        /\ {reqs[r].version : r \in Versioned(t)} = 1..threads[t]["snapshot_count"]

\* Two requests, one of each kind, were both between the read of the thread
\* and the counter update, and both got a version.
C4_Witness ==
    \E t \in DOMAIN threads : \E r1, r2 \in Versioned(t) :
        /\ reqs[r1].kind = "regular"
        /\ reqs[r2].kind = "comprehensive"
        /\ reqs[r1].version = 2
        /\ reqs[r2].version = 1
        /\ r1 < r2
        /\ reqs[r1].pc = "put"

\* C3: a rehydrate-by-id request that carries an id the hydrate handler
\* answered with gets 200 and the markdown that was stored under that id.
C3_RehydrationRoundTrip ==
    \A r \in 1..MaxRequests :
        (reqs[r].kind = "rehydrate" /\ reqs[r].answered)
        => /\ reqs[r].status = 200
           /\ \E q \in 1..MaxRequests :
                /\ reqs[q].kind = "hydrate"
                /\ reqs[q].pc = "done"
                /\ reqs[q].status = 200
                /\ reqs[q].rehydration_id = reqs[r].rehydration_id
                /\ reqs[r].body.markdown_content = reqs[q].md
\* The numbered items of a rendered text are the lines that start with
\* digits followed by ". **".
RECURSIVE LeadingDigits(_, _)
LeadingDigits(line, n) ==
    IF n < Len(line) /\ CharAt(line, n + 1) \in Range(Digits)
    THEN LeadingDigits(line, n + 1) ELSE n

RECURSIVE ToInt(_, _)
ToInt(digits, acc) ==
    IF digits = "" THEN acc
    ELSE ToInt(Tail(digits),
               10 * acc + (CHOOSE d \in 0..9 : Digits[d + 1] = CharAt(digits, 1)))

\* Where the lines of a text start, and those of them that start a numbered
\* item.
LineStarts(text) == {1} \cup {i + 1 : i \in {i \in 1..Len(text) : CharAt(text, i) = "\n"}}

ItemStarts(text) ==
    {s \in LineStarts(text) :
        \E n \in {LeadingDigits(SubSeq(text, s, Len(text)), 0)} :
            n > 0 /\ Prefix(SubSeq(text, s + n, Len(text)), 4) = ". **"}

ItemNumber(text, s) ==
    ToInt(SubSeq(text, s, s + LeadingDigits(SubSeq(text, s, Len(text)), 0) - 1), 0)

\* C11: the text mine_open_questions returns holds at most 12 numbered
\* items, and they are numbered 1, 2, 3, ... in the order they appear.
C11_AnnotationCap ==
    call.op = "mine" =>
        \E items \in {ItemStarts(call.output)} :
            /\ Cardinality(items) <= 12
            /\ \A s \in items :
                   ItemNumber(call.output, s) = Cardinality({u \in items : u <= s})

\* More than twelve matches were found, of more than three types, and the
\* text holds twelve items and the line that counts the rest.
C11_Witness ==
    /\ call.op = "mine"
    /\ Cardinality(ItemStarts(call.output)) = 12
    /\ \E s \in LineStarts(call.output) :
           Prefix(SubSeq(call.output, s, Len(call.output)), 11) = "### REVIEWs"
    /\ EndsWith(call.output, "more questions found*")

\* C12, as stated: when some category other than "other" has a count above
\* zero, the work area is the first category, in the order api, frontend,
\* database, tests, config, docs, whose count is the largest among these
\* six, however many files are "other"; it is "general" only when the six
\* counts are all zero.
NonOtherAreas == <<"api", "frontend", "database", "tests", "config", "docs">>

C12_WorkAreaIgnoresOther ==
    call.op = "analyze" =>
        LET counts == call.patterns
            best == {k \in 1..Len(NonOtherAreas) :
                        \A j \in 1..Len(NonOtherAreas) :
                            counts[NonOtherAreas[j]] <= counts[NonOtherAreas[k]]}
            first == CHOOSE k \in best : \A j \in best : k <= j
        IN  IF \E k \in 1..Len(NonOtherAreas) : counts[NonOtherAreas[k]] > 0
            THEN call.work_area = NonOtherAreas[first]
            ELSE call.work_area = "general"

\* C13, as stated: on the commits get_recent_commits gives, the change
\* impact is "high" when a commit carries an urgency keyword or there are
\* more than 10 files or more than 5 commits, else "medium" when there are
\* more than 5 files or more than 3 commits, else "low".
UrgencyKeywords == {"urgent", "critical", "hotfix", "emergency", "asap", "breaking"}

C13_ChangeImpact ==
    call.op = "analyze" =>
        LET commits == call.recent_commits
            urgent == \E i \in 1..Len(commits) :
                          ContainsAny(Lower(commits[i].subject \o " " \o commits[i].body),
                                      UrgencyKeywords)
            file_count == Len(call.paths)
            commit_count == Len(commits)
        IN  call.change_impact =
                IF urgent \/ file_count > 10 \/ commit_count > 5 THEN "high"
                ELSE IF file_count > 5 \/ commit_count > 3 THEN "medium"
                ELSE "low"

\* C16, as stated: with the changed file api/users.py and a commit of subject
\* "fix: resolve null pointer in auth" and empty body, the commit has type
\* "fix" and its scope includes "api" and "auth".
C16_ScenarioFixInAuth ==
    (call.op = "analyze" /\ "api/users.py" \in Range(call.paths)) =>
        \A i \in 1..Len(call.recent_commits) :
            LET commit == call.recent_commits[i]
            IN  (commit.subject = "fix: resolve null pointer in auth" /\ commit.body = "") =>
                    /\ commit.type = "fix"
                    /\ "api" \in Range(commit.scope)
                    /\ "auth" \in Range(commit.scope)

\* C17, as stated: every commit the scan returns whose subject contains both
\* "breaking" and "#123 fixes" has breaking_change = true and
\* closes_issue = true.
C17_ScenarioBreakingAndCloses ==
    scan.pc = "done" =>
        \A i \in 1..Len(scan.recent_commits) :
            LET commit == scan.recent_commits[i]
            IN  (Contains(commit.subject, "breaking") /\ Contains(commit.subject, "#123 fixes")) =>
                    commit.breaking_change /\ commit.closes_issue

\* C16, amended: with the changed file api/users.py and a commit of subject
\* "fix: resolve null pointer in auth" and empty body, the commit has type
\* "fix" and its scope is exactly [auth]: the scope comes from the words of
\* the commit, and the changed files do not enter it.
C16_ScopeFromCommitText ==
    (call.op = "analyze" /\ "api/users.py" \in Range(call.paths)) =>
        \A i \in 1..Len(call.recent_commits) :
            LET commit == call.recent_commits[i]
            IN  (commit.subject = "fix: resolve null pointer in auth" /\ commit.body = "") =>
                    commit.type = "fix" /\ commit.scope = <<"auth">>

C16_Witness ==
    /\ call.op = "analyze"
    /\ call.paths = <<"api/users.py">>
    /\ call.work_area = "api"
    /\ \E i \in 1..Len(call.recent_commits) :
         /\ call.recent_commits[i].subject = "fix: resolve null pointer in auth"
         /\ call.recent_commits[i].body = ""

\* C17, amended: every commit the scan returns whose subject contains
\* "breaking" and the verb before the number, "fixes #123", has
\* breaking_change = true and closes_issue = true; the commit of subject
\* "breaking: #123 fixes login" and empty body, the number before the verb,
\* has breaking_change = true and closes_issue = false.
C17_BreakingAndVerbThenNumber ==
    scan.pc = "done" =>
        \A i \in 1..Len(scan.recent_commits) :
            LET commit == scan.recent_commits[i]
            IN  /\ (Contains(commit.subject, "breaking") /\ Contains(commit.subject, "fixes #123"))
                       => (commit.breaking_change /\ commit.closes_issue)
                /\ (commit.subject = "breaking: #123 fixes login" /\ commit.body = "")
                       => (commit.breaking_change /\ ~commit.closes_issue)

C17_Witness ==
    /\ scan.pc = "done"
    /\ \E i \in 1..Len(scan.recent_commits) :
         /\ scan.recent_commits[i].subject = "breaking: fixes #123 in login"
         /\ scan.recent_commits[i].closes_issue

\* C14, as stated: a snapshot, comprehensive-snapshot or hydrate request
\* that carries no thread identifier, and a hydrate request that carries no
\* markdown body, is answered with status 400 and an error text.
C14_ValidationAnswers400 ==
    \A r \in 1..MaxRequests :
        (/\ reqs[r].pc = "done"
         /\ reqs[r].kind \in {"regular", "comprehensive", "hydrate"}
         /\ \/ reqs[r].thread_id = ""
            \/ reqs[r].kind = "hydrate" /\ "md" \notin DOMAIN reqs[r])
        => (reqs[r].status = 400 /\ reqs[r].body.error # "")

\* C15: in prd_create the PRD file, the CURRENT link and the local state are
\* written before the upload is attempted; when the upload fails the file is
\* still in place with its content, its path is printed, and the command
\* ends normally.
C15_PartialResultsSurvive ==
    (call.op = "prd" /\ (call.pc = "upload" \/ call.uploaded # ""))
    => LET path == prd_relative_path(call.filename)
       IN  /\ path \in DOMAIN call.files /\ call.files[path] = call.prd_content
           /\ call.current = call.filename
           /\ Get(call.state, "active_prd", "") = path
           /\ call.uploaded \notin {"", "ok"} =>
                  /\ call.pc = "done" /\ call.exit = "ok"
                  /\ \E k \in 1..Len(call.printed) : Contains(call.printed[k], path)

C15_Witness ==
    /\ call.op = "prd" /\ call.pc = "done" /\ call.runs = 2
    /\ call.uploaded = "timeout"
    /\ Cardinality(DOMAIN call.files) = 2
    /\ call.printed[Len(call.printed)] = "Local file: " \o prd_relative_path(call.filename)

\* C18: enforce_budget returns a prefix of the candidates in ascending order
\* of estimated cost, input order kept among equal costs; every accepted
\* prefix fits the budget, and the first candidate left out, when there is
\* one, is one whose cost would push the total above the budget, so nothing
\* after it is accepted.
C18_LinearCutoff ==
    budget_pc = "done" =>
        LET n == Len(file_paths)
            cost(i) == get_file_size_estimate(file_paths[i])
            Before(i, j) == cost(i) < cost(j) \/ (cost(i) = cost(j) /\ i < j)
            sorted == [k \in 1..n |->
                          CHOOSE i \in 1..n : Cardinality({j \in 1..n : Before(j, i)}) = k - 1]
            accepted == Len(filtered_paths)
            total(k) == SumEstimates(file_paths, SubSeq(sorted, 1, k))
        IN  /\ accepted <= n
            /\ filtered_paths = SubSeq(sorted, 1, accepted)
            /\ total(accepted) <= max_tokens
            /\ accepted < n => total(accepted + 1) > max_tokens

\* C18 witness: three candidates, the first and the third of equal cost; the
\* second, cheaper, is accepted, the first is rejected and the third, after
\* it, is not reconsidered.
C18_Witness ==
    /\ budget_pc = "done"
    /\ Len(file_paths) = 3
    /\ filtered_paths = <<2>>
    /\ get_file_size_estimate(file_paths[1]) = get_file_size_estimate(file_paths[3])
    /\ get_file_size_estimate(file_paths[2]) > 0

\* C19, as stated: the scan consults the files of the last commit exactly
\* when the staged, unstaged and untracked paths git reported are, together,
\* none; with a path reported it does not, whatever the filter and the
\* budget leave of the paths.
C19_FallbackOnlyWhenNothingReported ==
    scan.pc = "done" => (scan.fallback <=> scan.reported = {})

\* C20, as stated: of the candidates of a scan the filter keeps every path
\* that does not lie under a skip directory, has no skip extension, exists
\* and is not binary; so the workflow file under .github/workflows, which
\* exists and is text, is kept.
UnderSkipDirectory(p) ==
    \E parts \in {Split(p, "/")} :
        \E k \in 1..(Len(parts) - 1) : parts[k] \in SKIP_DIRECTORIES

C20_FilterDropsOnlyListed ==
    (scan.pc = "done" /\ ~scan.raised) =>
        \A k \in 1..Len(scan.all_candidates) :
            LET p == scan.all_candidates[k]
            IN  (/\ ~UnderSkipDirectory(p)
                 /\ Lower(PathSuffix(p)) \notin SKIP_EXTENSIONS
                 /\ PathExists(p)
                 /\ ~is_binary_file(p))
                => p \in Range(scan.filtered_candidates)

\* C21, as stated: in the Development branch the open_questions section is
\* rendered from the miner's result, so when the files given include
\* api/users.py, whose first line holds a TODO marker of more than 5
\* characters, the text the miner finds there appears in the section.
C21_OpenQuestionsFromMiner ==
    (/\ call.op = "comprehensive" /\ ~call.raised
     /\ call.branch = "development"
     /\ MinePath["a"] \in Range(ScanInputs[call.scan].paths))
    => Contains(call.sections["open_questions"].v, FileQuestions["a"]["TODO"][1].text)

\* C22, as stated: a call that ran the Initial branch with the template and
\* returned has loaded the persona template named {persona}-initial, so
\* that name is in the loader's cache afterwards.
C22_InitialLoadsSuffixedTemplate ==
    (call.op = "comprehensive" /\ call.branch = "initial" /\ ~call.raised)
    => (call.persona \o "-initial") \in DOMAIN persona_cache

\* The variables every call sets, and the calls in which nothing but the
\* rule block adds to them: no goal in the thread data, so no goal modifier
\* matches, and no context.
BaseKeys == {"goal", "repo", "branch", "persona_name"}
RuleOnlyCall ==
    /\ call.op = "resolve" /\ ~call.raised
    /\ call.ctx = NoneCtx
    /\ "goal" \notin DOMAIN call.thread_data

\* The returned variables are the base variables and those of the block.
AppliesBlock(block) ==
    /\ DOMAIN call.tv = BaseKeys \cup DOMAIN block
    /\ \A k \in DOMAIN block : block[k].kind = "str" => call.tv[k] = block[k]

\* C23, as stated: the rule block applied is that of the first category, in
\* the priority order, that is among the file categories; the default block
\* is applied only when none of the six categories is among them.
C23_FirstPresentCategory ==
    RuleOnlyCall =>
        LET rules == Get(PersonaDocs[call.persona], "template_rules", << >>)
            present == {k \in 1..Len(category_priority) :
                           category_priority[k] \in call.file_categories}
            first == CHOOSE k \in present : \A j \in present : k <= j
        IN  AppliesBlock(IF present = {} THEN Get(rules, "default", << >>)
                         ELSE Get(rules, category_priority[first], << >>))

\* C23, amended: the rule block applied is that of the first category, in
\* the priority order, that is both among the file categories and among the
\* persona's template rules; the default block is applied when there is no
\* such category and when the block of that category is empty.
C23_FirstPresentCategoryWithRule ==
    RuleOnlyCall =>
        LET rules == Get(PersonaDocs[call.persona], "template_rules", << >>)
            ruled == {k \in 1..Len(category_priority) :
                         /\ category_priority[k] \in call.file_categories
                         /\ category_priority[k] \in DOMAIN rules}
            first == CHOOSE k \in ruled : \A j \in ruled : k <= j
        IN  AppliesBlock(IF ruled # {} /\ rules[category_priority[first]] # << >>
                         THEN rules[category_priority[first]]
                         ELSE Get(rules, "default", << >>))

\* C23 witness: Backend/Lambda, earlier in the order, is among the file
\* categories but has no rule; the block of Tests was applied.
C23_Witness ==
    /\ RuleOnlyCall
    /\ call.persona = "dev"
    /\ call.file_categories = {"Backend/Lambda", "Tests"}
    /\ call.tv["task_list"] = Str("- Run the suite")
    /\ "expected_outputs" \notin DOMAIN call.tv

\* The rendered text as read back: the "### <TYPE>s" lines, the type each
\* names by its place in the order of the claim, the header an item stands
\* under, and the text and the "file:line" reference of an item.
RenderOrder == <<"FIXME", "TODO", "QUESTION", "REVIEW", "HACK", "TBD", "XXX", "NOTE">>

HeaderStarts(text) ==
    {s \in LineStarts(text) : Prefix(SubSeq(text, s, Len(text)), 4) = "### "}

HeaderRank(text, h) ==
    LET named == {k \in 1..Len(RenderOrder) :
                     Prefix(SubSeq(text, h + 4, Len(text)), Len(RenderOrder[k]) + 2)
                         = RenderOrder[k] \o "s\n"}
    IN  IF named = {} THEN 0 ELSE CHOOSE k \in named : TRUE

HeaderOf(heads, s) ==
    LET before == {h \in heads : h < s}
    IN  IF before = {} THEN 0 ELSE CHOOSE h \in before : \A g \in before : g <= h

ItemText(text, s) ==
    SubSeq(text, s + LeadingDigits(SubSeq(text, s, Len(text)), 0) + 4,
           FindFrom(text, "\n", s) - 3)

ItemRef(text, s) ==
    CHOOSE ref \in
      { SubSeq(text, e + 7, FindFrom(text, "\n", e + 1) - 2) :
          e \in {FindFrom(text, "\n", s)} } : TRUE

ItemFile(text, s) ==
    CHOOSE file \in {SubSeq(ref, 1, RFind(ref, ":") - 1) : ref \in {ItemRef(text, s)}} : TRUE

\* The annotations of one type found in the input of the call.
FoundOfType(ptype) ==
    collect_questions(SubSeq(call.names, 1, Min(file_limit, Len(call.names))),
                      MineCommits[call.commits], ptype)

\* C24: in the text mine_open_questions returns, the type headers appear in
\* the order FIXME, TODO, QUESTION, REVIEW, HACK, TBD, XXX, NOTE; every item
\* stands under a header and is an annotation of that header's type, so an
\* item of a lower-priority type comes only after the items of every
\* higher-priority type; a header has at most 4 items, in the order of
\* their source paths; and when FIXME, TODO and QUESTION each have 4 or more
\* annotations, no other type is rendered.
C24_RenderingOrder ==
    call.op = "mine" =>
        \E text \in {call.output} :
        \E heads \in {HeaderStarts(text)}, items \in {ItemStarts(text)} :
        \E section \in {[s \in items |-> HeaderOf(heads, s)]},
           file \in {[s \in items |-> ItemFile(text, s)]} :
            /\ \A h \in heads : HeaderRank(text, h) > 0
            /\ \A g, h \in heads : g < h => HeaderRank(text, g) < HeaderRank(text, h)
            /\ \A s \in items :
                   /\ section[s] \in heads
                   /\ \E found \in {FoundOfType(RenderOrder[HeaderRank(text, section[s])])} :
                          \E k \in 1..Len(found) :
                              /\ found[k].text = ItemText(text, s)
                              /\ found[k].file \o ":" \o IntStr(found[k].line)
                                     = ItemRef(text, s)
            /\ \A h \in heads : Cardinality({s \in items : section[s] = h}) \in 1..4
            /\ \A s, u \in items :
                   (s < u /\ section[s] = section[u]) => ~StrLess(file[u], file[s])
            /\ (\A k \in 1..3 : Len(FoundOfType(RenderOrder[k])) >= 4)
                   => \A h \in heads : HeaderRank(text, h) <= 3

\* C24 witness: FIXME, TODO and QUESTION each have four annotations or more
\* and REVIEW, HACK, TBD, XXX and NOTE have some; the files were given in
\* another order than that of their paths, and twelve items were rendered.
C24_Witness ==
    /\ call.op = "mine"
    /\ call.names = <<"c", "b", "a">>
    /\ \A k \in 1..3 : Len(FoundOfType(RenderOrder[k])) >= 4
    /\ \A k \in 4..8 : Len(FoundOfType(RenderOrder[k])) >= 1
    /\ Cardinality(ItemStarts(call.output)) = 12
    /\ Cardinality(HeaderStarts(call.output)) = 3

\* The keywords of each type, in the order of the claim.
TypeOrder == <<"fix", "feat", "refactor", "test", "docs", "config">>
TypeKeywords ==
    [ fix      |-> {"fix", "bug", "error", "issue"},
      feat     |-> {"feat", "feature", "add", "implement"},
      refactor |-> {"refactor", "cleanup", "improve"},
      test     |-> {"test", "spec", "coverage"},
      docs     |-> {"doc", "readme", "comment"},
      config   |-> {"config", "setup", "env", "deploy"} ]

\* The types of which the lower-cased subject contains a keyword.
MatchedTypes(subject) ==
    CHOOSE matched \in
      { {k \in 1..Len(TypeOrder) : \E w \in TypeKeywords[TypeOrder[k]] : Contains(lower, w)}
        : lower \in {Lower(subject)} } : TRUE

\* C25: analyze_single_commit gives a commit one type among fix, feat,
\* refactor, test, docs, config and other; the type is the earliest, in that
\* order, of the types of which the lower-cased subject contains a keyword,
\* and it is "other" exactly when the subject contains no keyword; the type
\* is a function of the subject alone, whatever the body.
C25_CommitType ==
    call.op = "commit" =>
        \E matched \in {MatchedTypes(call.commit.subject)} :
            /\ call.analysis.type \in Range(TypeOrder) \cup {"other"}
            /\ call.analysis.type = "other" <=> matched = {}
            /\ matched # {} =>
                   call.analysis.type = TypeOrder[CHOOSE k \in matched : \A j \in matched : k <= j]

\* C25 witness: the subject holds keywords of feat, test and config and the
\* body one of fix; the type is feat.
C25_Witness ==
    /\ call.op = "commit"
    /\ call.commit.subject = "add test for config"
    /\ call.commit.body = "fix the bug"
    /\ MatchedTypes(call.commit.subject) = {2, 4, 6}
    /\ call.analysis.type = "feat"

\* The counter of analyze_commit_patterns for each type of
\* analyze_single_commit.
CountOfType ==
    [ fix |-> "fix_commits", feat |-> "feature_commits", refactor |-> "refactor_commits",
      test |-> "test_commits", docs |-> "docs_commits", config |-> "config_commits" ]

\* C30, as stated: for a commit list get_recent_commits produced, each of
\* fix_commits, feature_commits, refactor_commits, test_commits,
\* docs_commits and config_commits of analyze_commit_patterns is the number
\* of commits in the list whose type, as assigned by analyze_single_commit,
\* is fix, feat, refactor, test, docs and config.
C30_CountsAgreeWithTypes ==
    call.op = "analyze" =>
        \A k \in 1..Len(TypeOrder) :
            call.commit_analysis[CountOfType[TypeOrder[k]]]
                = Cardinality({i \in 1..Len(call.recent_commits) :
                                  call.recent_commits[i].type = TypeOrder[k]})

\* The snapshot requests on one thread, and those among them that were
\* handed a version.
SnapshotRequests(thread_id) ==
    {r \in 1..MaxRequests :
        reqs[r].kind \in SnapshotKinds /\ reqs[r].thread_id = thread_id}

Versions(thread_id) ==
    {reqs[r].version : r \in {q \in SnapshotRequests(thread_id) : reqs[q].version > 0}}

\* C26, as stated: whatever the interleaving of the snapshot requests on one
\* thread, once all of them have been answered with 200 the thread's
\* latest_snapshot_key is the key of the object of the highest version
\* handed out; and latest_snapshot_key always names an object that is
\* stored.
C26_LatestIsHighestVersion ==
    \A t \in DOMAIN threads :
        /\ "latest_snapshot_key" \in DOMAIN threads[t]
               => threads[t]["latest_snapshot_key"] \in DOMAIN bucket
        /\ \E snaps \in {SnapshotRequests(t)} :
               (/\ snaps # {}
                /\ \A r \in snaps : reqs[r].pc = "done" /\ reqs[r].status = 200)
               => \E r \in snaps :
                      /\ \A q \in snaps : reqs[q].version <= reqs[r].version
                      /\ threads[t]["latest_snapshot_key"] = reqs[r].s3_key

\* C27, as stated: a snapshot request whose object could not be stored is
\* answered with an error and leaves snapshot_count as it was, so that the
\* count of a thread whose requests are all answered is the number of those
\* answered with 200; and in every state each version 1..snapshot_count of
\* a thread is the version of a stored object of that thread.
C27_CountedVersionsAreStored ==
    \A t \in DOMAIN threads :
        /\ \A v \in 1..Get(threads[t], "snapshot_count", 0) :
               \E key \in DOMAIN bucket :
                   /\ Get(bucket[key].Metadata, "thread-id", "") = t
                   /\ Get(bucket[key].Metadata, "version", "") = IntStr(v)
        /\ \E snaps \in {SnapshotRequests(t)} :
               (\A r \in snaps : reqs[r].pc = "done")
               => /\ \A r \in snaps : reqs[r].version > 0 /\ reqs[r].status # 200
                                          => reqs[r].status >= 400
                  /\ Get(threads[t], "snapshot_count", 0)
                         = Cardinality({r \in snaps : reqs[r].status = 200})

\* C28, as stated: every thread record was created by a thread start, under
\* the id the start gave out; a hydrate request with a thread_id that no
\* start gave out is answered with an error.
C28_ThreadsOnlyFromThreadStart ==
    /\ DOMAIN threads \subseteq {ThreadUuid(n) : n \in 1..minted.thread}
    /\ \A r \in 1..MaxRequests :
           (/\ reqs[r].kind = "hydrate" /\ reqs[r].pc = "done"
            /\ reqs[r].thread_id \notin {ThreadUuid(n) : n \in 1..minted.thread})
           => reqs[r].status >= 400

\* The total estimated cost of a set of candidates, by index.
RECURSIVE SumOfSubset(_, _)
SumOfSubset(fp, S) ==
    IF S = {} THEN 0
    ELSE LET i == CHOOSE i \in S : TRUE
         IN  get_file_size_estimate(fp[i]) + SumOfSubset(fp, S \ {i})

\* C29: no set of candidates whose estimated costs sum to at most the
\* budget has more files than the list enforce_budget returns.
C29_CardinalityOptimal ==
    budget_pc = "done" =>
        \A S \in SUBSET (1..Len(file_paths)) :
            SumOfSubset(file_paths, S) <= max_tokens
                => Cardinality(S) <= Len(filtered_paths)

\* C29 witness: of three candidates two were kept and one was cut, and
\* another pair of candidates fits the budget as well, at a higher total.
C29_Witness ==
    /\ budget_pc = "done"
    /\ Len(file_paths) = 3
    /\ Len(filtered_paths) = 2
    /\ \E S \in SUBSET (1..Len(file_paths)) :
           /\ Cardinality(S) = 2
           /\ S # Range(filtered_paths)
           /\ SumOfSubset(file_paths, S) <= max_tokens
           /\ SumOfSubset(file_paths, S) > SumEstimates(file_paths, filtered_paths)

====
